---- MODULE Spec2Model ----
(***************************************************************************)
(* A model of the trading assistant's core: the stock store                *)
(* (database/modules/stock_item.rs), the item-pricing loop                 *)
(* (live_scraper/modules/item.rs) with its knapsack allocator, and the     *)
(* cache client (cache/client.rs).                                         *)
(*                                                                         *)
(* f64 values (bought price, closed average, profit) are modelled as exact *)
(* rationals <<n, d>>, d > 0, in lowest terms; a cast `as i64` is Trunc.   *)
(***************************************************************************)
EXTENDS Integers, Sequences, FiniteSets, TLC

VARIABLES
    k_items,    \* knapsack: the items handed to the call
    k_cap,      \* knapsack: max_weight
    k_out,      \* knapsack: None before the call, then its result
    stock,      \* stock store: the rows of table stock_item, in insert order
    next_id,    \* stock store: the next AUTOINCREMENT id
    s_ops,      \* stock store: number of operations performed
    s_last,     \* stock store: [op, ok, events] of the last operation
    s_ret,      \* stock store: the struct the last operation returned
    s_keys,     \* stock store: the (url, sub_type) pairs create has succeeded
                \* for since a row was last removed
    s_tasks,    \* stock store: task -> [pc, url, quantity, price, snap, base] of a create in progress
    l_settings, \* loop: settings.live_scraper
    l_prices,   \* loop: cache.item_price().get_items()
    l_market,   \* loop: url -> the live orders of the other users
    l_remote,   \* loop: the operator's orders on the marketplace
    l_next,     \* loop: the id the marketplace gives the next created order
    l_my_orders,    \* check_stock: my_orders, the mirror
    l_stock_items,  \* check_stock: stock_items_interesting_items
    l_price_items,  \* check_stock: price_scraper_interesting_items_new
    l_todo,     \* check_stock: interesting_items, url -> visits left
    l_cur,      \* check_stock: the item between its buy and its sell decision;
                \* delete_all_orders: its mode
    l_pc,       \* "idle", "loop", "sell" (check_stock), "deleting" or "done"
    l_pass,     \* loop: number of check_stock runs started
    l_calls,    \* loop: the remote create/update/delete calls issued
    l_last,     \* loop: what the last step decided and the order events it sent
    l_clean,    \* loop: no remote call has failed or hit the order limit so far
    l_result,   \* check_stock, delete_all_orders: "none", "ok" or "err"
    l_running,  \* client.is_running(), the shared flag
    l_stopped,  \* loop: the flag has been false since the operation began
    l_queue,    \* delete_all_orders: the orders still to go through
    l_memo,     \* ItemModule.interesting_items_cache, a set of [key, df]
    z_cell,     \* cache client: accessor -> the Option its RwLock cell holds
    z_th,       \* cache client: thread -> [pc, acc, got] of its accessor call
    z_built,    \* cache client: accessor -> the module constructors run
    c_env,      \* load: what the remote and the disk do during this load
    c_pc,       \* load: "idle", "download", "modules", "snapshot" or "done"
    c_id,       \* load: the content of cache_id.txt, None while absent
    c_catalog,  \* load: the identity of the extracted catalog files
    c_data,     \* load: cache_data, the in-memory snapshot
    c_file,     \* load: the content of cache.json, None while absent
    c_result,   \* load: "none", "ok" or "err"
    c_trace     \* load: the steps load() has taken

knapVars == <<k_items, k_cap, k_out>>
storeVars == <<stock, next_id, s_ops, s_last, s_ret, s_keys, s_tasks>>
loopEnv == <<l_settings, l_prices, l_market>>
loopVars == <<l_settings, l_prices, l_market, l_remote, l_next, l_my_orders, l_stock_items, l_price_items, l_todo, l_cur, l_pc, l_pass, l_calls, l_last, l_clean, l_result, l_running, l_stopped, l_queue, l_memo>>
ctlVars == <<l_running, l_stopped, l_queue>>
lazyVars == <<z_cell, z_th, z_built>>
loadVars == <<c_env, c_pc, c_id, c_catalog, c_data, c_file, c_result, c_trace>>
cacheVars == <<lazyVars, loadVars>>
vars == <<k_items, k_cap, k_out, stock, next_id, s_ops, s_last, s_ret, s_keys, s_tasks, l_settings, l_prices, l_market, l_remote, l_next, l_my_orders, l_stock_items, l_price_items, l_todo, l_cur, l_pc, l_pass, l_calls, l_last, l_clean, l_result, l_running, l_stopped, l_queue, l_memo, z_cell, z_th, z_built, c_env, c_pc, c_id, c_catalog, c_data, c_file, c_result, c_trace>>

\* Option<T>: None is the empty sequence, Some(v) the one-element sequence.
None == <<>>
Some(v) == <<v>>
IsSome(o) == o # <<>>
Unwrap(o) == o[1]

(***************************************************************************)
(* Arithmetic helpers                                                      *)
(***************************************************************************)
Max(a, b) == IF a >= b THEN a ELSE b
Min(a, b) == IF a <= b THEN a ELSE b
Abs(a) == IF a >= 0 THEN a ELSE -a

RECURSIVE Gcd(_, _)
Gcd(a, b) == IF b = 0 THEN a ELSE Gcd(b, a % b)

\* Integer division truncating toward zero, as Rust's `/` on integers.
TDiv(a, b) == IF a >= 0 THEN a \div b ELSE -((-a) \div b)

\* The rational n/d in lowest terms (d > 0).
Rat(n, d) ==
    LET g == Gcd(Abs(n), d) IN
    IF n = 0 THEN <<0, 1>> ELSE <<TDiv(n, g), d \div g>>
IntRat(i) == <<i, 1>>
RatAdd(a, b) == Rat(a[1] * b[2] + b[1] * a[2], a[2] * b[2])
RatSub(a, b) == Rat(a[1] * b[2] - b[1] * a[2], a[2] * b[2])
RatMulInt(a, i) == Rat(a[1] * i, a[2])
RatDivInt(a, i) == Rat(a[1], a[2] * i)
RatLt(a, b) == a[1] * b[2] < b[1] * a[2]
RatLe(a, b) == a[1] * b[2] <= b[1] * a[2]
\* `x as i64` on an f64: truncation toward zero.
Trunc(a) == TDiv(a[1], a[2])

RECURSIVE SumSeq(_)
SumSeq(s) == IF s = <<>> THEN 0 ELSE s[1] + SumSeq(Tail(s))

SeqOf(S, n) == UNION {[1..k -> S] : k \in 0..n}

(***************************************************************************)
(* ItemModule::knapsack (live_scraper/modules/item.rs)                     *)
(* An item is [weight, value, url, id]; value is an f64.                   *)
(***************************************************************************)
\* The cell dp[i][w] after the fill loop: row 0 and column 0 keep the 0 the
\* table is created with (the loop over w starts at 1).
RECURSIVE dp(_, _, _)
dp(items, i, w) ==
    IF i = 0 \/ w = 0 THEN 0
    ELSE IF items[i].weight <= w
         THEN Max(dp(items, i - 1, w),
                  dp(items, i - 1, w - items[i].weight) + Trunc(items[i].value))
         ELSE dp(items, i - 1, w)

\* The back-trace: i runs from n down to 1 (items[i] is the code's items[i-1]);
\* acc carries the remaining w and both output vectors.
RECURSIVE BackTrace(_, _, _)
BackTrace(items, i, acc) ==
    IF i = 0 THEN acc
    ELSE IF dp(items, i, acc.w) # dp(items, i - 1, acc.w)
         THEN BackTrace(items, i - 1,
                        [acc EXCEPT !.selected = Append(@, items[i]),
                                    !.w = @ - items[i].weight])
         ELSE BackTrace(items, i - 1,
                        [acc EXCEPT !.unselected = Append(@, items[i])])

knapsack(items, max_weight) ==
    LET r == BackTrace(items, Len(items),
                       [w |-> max_weight, selected |-> <<>>, unselected |-> <<>>])
    IN  [value |-> dp(items, Len(items), max_weight),
         selected |-> r.selected,
         unselected |-> r.unselected]

(***************************************************************************)
(* SpecKnap: knapsack as a pure function over bounded inputs.              *)
(***************************************************************************)
MaxItems == 3
MaxWeight == 2
MaxCap == 3
KnapValues == {<<-2, 1>>, <<0, 1>>, <<5, 2>>, <<3, 1>>}
KnapItem == [weight : 0..MaxWeight, value : KnapValues, url : {"u"}, id : {"o"}]

KnapIdle == k_items = <<>> /\ k_cap = 0 /\ k_out = None

\* The pricing loop before check_stock has run, with default settings.
EmptyOrders == [buy_orders |-> <<>>, sell_orders |-> <<>>]
DefaultSettings == [order_mode |-> "Both", blacklist |-> <<>>, whitelist |-> <<>>, strict_whitelist |-> FALSE, volume_threshold |-> 0, range_threshold |-> 0, avg_price_cap |-> 0, max_total_price_cap |-> 0, price_shift_threshold |-> 0, min_sma |-> 0, min_profit |-> 0]
LastNone == [fn |-> "none", item |-> "", status |-> "", post_price |-> 0, profit |-> 0, list_price |-> None, ncalls |-> 0, err |-> FALSE, lvl |-> "", msg |-> "", knap |-> FALSE, events |-> <<>>]
LoopStopped ==
    /\ l_my_orders = EmptyOrders /\ l_stock_items = None /\ l_price_items = <<>>
    /\ l_todo = <<>> /\ l_cur = "" /\ l_pc = "idle" /\ l_pass = 0
    /\ l_calls = <<>> /\ l_last = LastNone /\ l_clean = TRUE /\ l_result = "none"
    /\ l_running = TRUE /\ l_stopped = FALSE /\ l_queue = <<>> /\ l_memo = {}
LoopIdle ==
    /\ l_settings = DefaultSettings /\ l_prices = <<>> /\ l_market = <<>>
    /\ l_remote = EmptyOrders /\ l_next = 1
    /\ LoopStopped
StoreIdle ==
    /\ stock = <<>> /\ next_id = 1 /\ s_ops = 0
    /\ s_last = [op |-> "init", ok |-> TRUE, events |-> <<>>] /\ s_ret = None /\ s_keys = {} /\ s_tasks = <<>>

\* The cache client as CacheClient::new leaves it, before any call.
EmptyCacheData == [last_refresh |-> None, item |-> [items |-> <<>>], riven |-> [items |-> <<>>, attributes |-> <<>>]]
LazyIdle == z_cell = <<>> /\ z_th = <<>> /\ z_built = <<>>
LoadIdle ==
    /\ c_env = <<>> /\ c_pc = "idle" /\ c_id = None /\ c_catalog = None
    /\ c_data = EmptyCacheData /\ c_file = None /\ c_result = "none" /\ c_trace = <<>>
CacheIdle == LazyIdle /\ LoadIdle

KnapInit ==
    /\ k_items \in SeqOf(KnapItem, MaxItems)
    /\ k_cap \in 0..MaxCap
    /\ k_out = None
    /\ StoreIdle
    /\ LoopIdle
    /\ CacheIdle

KnapsackCall ==
    /\ k_out = None
    /\ k_out' = Some(knapsack(k_items, k_cap))
    /\ UNCHANGED <<k_items, k_cap>>
    /\ UNCHANGED storeVars
    /\ UNCHANGED loopVars
    /\ UNCHANGED cacheVars

KnapNext == KnapsackCall

SpecKnap == KnapInit /\ [][KnapNext]_vars

\* Sums over an item vector and over a subset of item positions.
RECURSIVE TotalWeight(_)
TotalWeight(s) == IF s = <<>> THEN 0 ELSE s[1].weight + TotalWeight(Tail(s))
RECURSIVE TotalValue(_)
TotalValue(s) == IF s = <<>> THEN 0 ELSE Trunc(s[1].value) + TotalValue(Tail(s))
RECURSIVE SetWeight(_, _)
SetWeight(items, I) ==
    IF I = {} THEN 0
    ELSE LET i == CHOOSE j \in I : TRUE
         IN items[i].weight + SetWeight(items, I \ {i})
RECURSIVE SetValue(_, _)
SetValue(items, I) ==
    IF I = {} THEN 0
    ELSE LET i == CHOOSE j \in I : TRUE
         IN Trunc(items[i].value) + SetValue(items, I \ {i})

\* The items at the positions I, from the last position down to the first.
RECURSIVE RevPick(_, _, _)
RevPick(items, I, i) ==
    IF i = 0 THEN <<>>
    ELSE (IF i \in I THEN <<items[i]>> ELSE <<>>) \o RevPick(items, I, i - 1)

\* C5: knapsack's selected set fits the capacity, is at least as valuable
\* (truncated values) as every subset that fits, and selected together with
\* unselected hold every input item exactly once.
C5_KnapsackOptimal ==
    k_out # None =>
        /\ TotalWeight(Unwrap(k_out).selected) <= k_cap
        /\ \A I \in SUBSET (1..Len(k_items)) :
               SetWeight(k_items, I) <= k_cap
                   => TotalValue(Unwrap(k_out).selected) >= SetValue(k_items, I)
        /\ \E I \in SUBSET (1..Len(k_items)) :
               /\ Unwrap(k_out).selected = RevPick(k_items, I, Len(k_items))
               /\ Unwrap(k_out).unselected
                    = RevPick(k_items, (1..Len(k_items)) \ I, Len(k_items))

(***************************************************************************)
(* The stock store: StockItemModule (database/modules/stock_item.rs).      *)
(* A row is [id, url, sub_type, price, minium_price, listed_price,         *)
(* price_history, owned, hidden, status]; price is the f64 per-unit cost.  *)
(***************************************************************************)
StockStatus == {"Pending", "Live", "InActive", "NoSellers", "SMALimit",
                "ToLowProfit", "Overpriced", "Underpriced", "OrderLimit"}

\* The urls with an entry in the item catalog (cache.item().find_type).
Catalog == {"a", "b"}
find_type(url_name) == IF url_name \in Catalog THEN Some(url_name) ELSE None

\* items.iter().find(|t| t.url == url_name): the position of the first row of
\* the table with that url, 0 for none.
IndexOfUrl(tbl, url_name) ==
    IF \E i \in 1..Len(tbl) : tbl[i].url = url_name
    THEN CHOOSE i \in 1..Len(tbl) :
             tbl[i].url = url_name /\ \A j \in 1..(i - 1) : tbl[j].url # url_name
    ELSE 0

\* stock.iter().find(|t| t.id == id)
IndexOfId(tbl, id) ==
    IF \E i \in 1..Len(tbl) : tbl[i].id = id
    THEN CHOOSE i \in 1..Len(tbl) :
             tbl[i].id = id /\ \A j \in 1..(i - 1) : tbl[j].id # id
    ELSE 0

get_item_by_url_name(tbl, url_name) ==
    LET i == IndexOfUrl(tbl, url_name)
    IN  IF i = 0 THEN None ELSE Some(tbl[i])

get_by_id(tbl, id) ==
    LET i == IndexOfId(tbl, id)
    IN  IF i = 0 THEN None ELSE Some(tbl[i])

RemoveAt(seq, i) == SubSeq(seq, 1, i - 1) \o SubSeq(seq, i + 1, Len(seq))

\* The -1 sentinel of minium_price and listed_price: Some(-1) stores NULL.
Sentinel_Stored(v) == v

Sentinel(v) == IF Unwrap(v) = -1 THEN None ELSE v

\* "Max 5 price history": drop the oldest at length >= 5, then push.
PushHistory(price_histories, entry) ==
    Append(IF Len(price_histories) >= 5 THEN Tail(price_histories)
           ELSE price_histories, entry)

\* The row update_by_id builds from the stored one and its Option arguments.
UpdatedRow(inventory, owned, price, minium_price, listed_price, status, hidden, price_history) ==
    [inventory EXCEPT
        !.owned = IF IsSome(owned) THEN Unwrap(owned) ELSE @,
        !.price = IF IsSome(price) THEN Unwrap(price) ELSE @,
        !.minium_price = IF IsSome(minium_price) THEN Sentinel(minium_price) ELSE @,
        !.listed_price = IF IsSome(listed_price) THEN Sentinel(listed_price) ELSE @,
        !.status = IF IsSome(status) THEN Unwrap(status) ELSE @,
        !.hidden = IF IsSome(hidden) THEN Unwrap(hidden) ELSE @,
        !.price_history = IF IsSome(price_history)
                          THEN PushHistory(@, Unwrap(price_history)) ELSE @]

\* update_by_id: [ok, stock, ret, events], events being what self.emit
\* sent. With no argument set the UPDATE statement
\* has no assignment and the database rejects it.
update_by_id(tbl, id, owned, price, minium_price, listed_price, status, hidden, price_history) ==
    LET i == IndexOfId(tbl, id)
        args == <<owned, price, minium_price, listed_price, status, hidden,
                  price_history>>
        values == {k \in 1..7 : IsSome(args[k])}
    IN  IF i = 0 \/ values = {}
        THEN [ok |-> FALSE, stock |-> tbl, ret |-> None, events |-> <<>>]
        ELSE LET inventory == UpdatedRow(tbl[i], owned, price, minium_price,
                                         listed_price, status, hidden,
                                         price_history)
             IN  [ok |-> TRUE,
                  stock |-> [tbl EXCEPT ![i] = inventory],
                  ret |-> Some(inventory), events |-> <<"CREATE_OR_UPDATE">>]

\* As WeightedPrice, with the incoming price taken per unit.
WeightedPrice_PerUnit(t, quantity, price) ==
    LET total_owned == t.owned + quantity
        total_price == RatAdd(RatMulInt(t.price, t.owned),
                              RatMulInt(price, quantity))
    IN  RatDivInt(total_price, total_owned)

\* create: the weighted average cost of the merged row (price is the total of
\* the incoming batch).
WeightedPrice(t, quantity, price) ==
    LET total_owned == t.owned + quantity
        total_price == RatAdd(RatMulInt(t.price, t.owned), price)
    IN  RatDivInt(total_price, total_owned)

\* create: the row an existing one is looked up by.
CreateLookup(tbl, url_name, sub_type) == get_item_by_url_name(tbl, url_name)

NewRow(id, url_name, quantity, price, minium_price, sub_type) ==
    [id |-> id, url |-> url_name, sub_type |-> sub_type,
     price |-> RatDivInt(price, quantity), minium_price |-> minium_price,
     listed_price |-> None, price_history |-> <<>>, owned |-> quantity,
     hidden |-> FALSE, status |-> "Pending"]

\* As CreateMissing, with every url taken as catalogued.
CreateMissing_Never(item) == FALSE

\* The match of lines 232-241: no catalog entry for url_name.
CreateMissing(item) == item = None

\* create from line 224 on, stock_items being what get_item_by_url_name
\* returned at line 223: [ok, tag, stock, next_id, ret, events].
create_from(tbl, nid, stock_items, url_name, quantity0, price, minium_price, sub_type) ==
    LET quantity == IF quantity0 <= 0 THEN 1 ELSE quantity0
        item == find_type(url_name)
        failed == [ok |-> FALSE, tag |-> "create_err", stock |-> tbl,
                   next_id |-> nid, ret |-> None, events |-> <<>>]
    IN  IF CreateMissing(item) THEN failed
        ELSE IF IsSome(stock_items)
        THEN LET t == Unwrap(stock_items)
                 total_owned == t.owned + quantity
                 weighted_price == WeightedPrice(t, quantity, price)
                 u == update_by_id(tbl, t.id, Some(total_owned),
                                   Some(weighted_price), None, None, None,
                                   None, None)
             IN  IF ~u.ok THEN failed
                 ELSE [ok |-> TRUE, tag |-> "create_merge", stock |-> u.stock,
                       next_id |-> nid,
                       ret |-> Some([t EXCEPT !.owned = total_owned,
                                              !.price = weighted_price]),
                       events |-> u.events \o <<"CREATE_OR_UPDATE">>]
        ELSE LET inventory == NewRow(nid, url_name, quantity, price,
                                     minium_price, sub_type)
             IN  [ok |-> TRUE, tag |-> "create_insert",
                  stock |-> Append(tbl, inventory), next_id |-> nid + 1,
                  ret |-> Some(inventory), events |-> <<"CREATE_OR_UPDATE">>]

\* create: the lookup and the rest in one piece.
create(tbl, nid, url_name, quantity0, price, minium_price, sub_type) ==
    create_from(tbl, nid, CreateLookup(tbl, url_name, sub_type), url_name, quantity0, price, minium_price, sub_type)

\* delete: [ok, stock, ret].
delete(tbl, id) ==
    LET i == IndexOfId(tbl, id)
    IN  IF i = 0 THEN [ok |-> FALSE, stock |-> tbl, ret |-> None, events |-> <<>>]
        ELSE [ok |-> TRUE, stock |-> RemoveAt(tbl, i), ret |-> Some(tbl[i]), events |-> <<"DELETE">>]

\* As sell_item, with the quantity taken as given.
sell_item_Unclamped(tbl, id, quantity0) ==
    LET stock_item == get_by_id(tbl, id)
    IN  IF stock_item = None
        THEN [ok |-> FALSE, stock |-> tbl, ret |-> None, events |-> <<>>]
        ELSE LET inventory == [Unwrap(stock_item) EXCEPT !.owned = @ - quantity0]
                 r == IF inventory.owned <= 0
                      THEN delete(tbl, id)
                      ELSE update_by_id(tbl, id, Some(inventory.owned), None,
                                        None, None, None, None, None)
             IN  [ok |-> r.ok, stock |-> r.stock,
                  ret |-> IF r.ok THEN Some(inventory) ELSE None, events |-> r.events]

\* sell_item: [ok, stock, ret]; the struct returned is the local `inventory`.
sell_item(tbl, id, quantity0) ==
    LET stock_item == get_by_id(tbl, id)
        quantity == IF quantity0 <= 0 THEN 1 ELSE quantity0
    IN  IF stock_item = None
        THEN [ok |-> FALSE, stock |-> tbl, ret |-> None, events |-> <<>>]
        ELSE LET inventory == [Unwrap(stock_item) EXCEPT !.owned = @ - quantity]
                 r == IF inventory.owned <= 0
                      THEN delete(tbl, id)
                      ELSE update_by_id(tbl, id, Some(inventory.owned), None,
                                        None, None, None, None, None)
             IN  [ok |-> r.ok, stock |-> r.stock,
                  ret |-> IF r.ok THEN Some(inventory) ELSE None, events |-> r.events]

\* reset_listed_price: one UPDATE over every row.
reset_listed_price(tbl) ==
    [i \in 1..Len(tbl) |->
        [tbl[i] EXCEPT !.listed_price = None, !.status = "Pending"]]

(***************************************************************************)
(* SpecStock: any sequence of stock-store operations, MaxOps long, from a  *)
(* table the store can hold.                                               *)
(***************************************************************************)
MaxOps == 1
MaxFields == 2
CreateUrls == Catalog \cup {"zz"}
CreateQty == {0, 2}
CreatePrices == {IntRat(9), IntRat(4)}
MinPrices == {Some(3)}
StoreSubTypes == {None, Some("rank1")}
HistoryEntries == {[user_id |-> "u1", price |-> 7]}
UpdOwned == {None, Some(0), Some(2)}
UpdPrice == {None, Some(<<7, 2>>)}
UpdMinium == {None, Some(-1), Some(3)}
UpdListed == {None, Some(-1), Some(4)}
UpdStatus == {None, Some("Pending"), Some("Live")}
UpdHidden == {None, Some(TRUE)}
UpdHistory == {None} \cup {Some(e) : e \in HistoryEntries}
SellQty == {0, 2}

\* A table the store holds after earlier sessions: empty, one row whose
\* history ring is nearly full or full, two rows, or a row whose url has
\* since left the catalog.
FilledHistory(n) == [i \in 1..n |-> [user_id |-> "u0", price |-> i]]
StoreInitTables ==
    {<<>>} \cup
    {<<[NewRow(1, "a", 2, IntRat(6), None, None)
          EXCEPT !.price_history = FilledHistory(n)]>> : n \in {4, 5}}
    \cup {<<[NewRow(1, "a", 2, IntRat(6), None, None) EXCEPT !.price_history = FilledHistory(4)],
            NewRow(2, "b", 3, IntRat(12), Some(3), None)>>}
    \cup {<<NewRow(1, "zz", 1, IntRat(5), None, None)>>}

StoreInit ==
    /\ stock \in StoreInitTables
    /\ next_id = Len(stock) + 1
    /\ s_ops = 0
    /\ s_last = [op |-> "init", ok |-> TRUE, events |-> <<>>]
    /\ s_ret = None
    /\ s_keys = {<<stock[i].url, stock[i].sub_type>> : i \in 1..Len(stock)}
    /\ s_tasks = <<>>
    /\ KnapIdle
    /\ LoopIdle
    /\ CacheIdle

StoreStep(op, r, keys) ==
    /\ s_ops' = s_ops + 1
    /\ stock' = r.stock
    /\ s_last' = [op |-> op, ok |-> r.ok, events |-> r.events]
    /\ s_ret' = r.ret
    /\ s_keys' = keys
    /\ UNCHANGED s_tasks
    /\ UNCHANGED knapVars
    /\ UNCHANGED loopVars
    /\ UNCHANGED cacheVars

Create(url_name, quantity, price, minium_price, sub_type) ==
    LET r == create(stock, next_id, url_name, quantity, price, minium_price,
                    sub_type)
    IN  /\ StoreStep(r.tag, r,
                     IF r.ok THEN s_keys \cup {<<url_name, sub_type>>} ELSE s_keys)
        /\ next_id' = r.next_id

UpdateById(id, owned, price, minium_price, listed_price, status, hidden, price_history) ==
    /\ StoreStep("update_by_id",
                 update_by_id(stock, id, owned, price, minium_price,
                              listed_price, status, hidden, price_history),
                 s_keys)
    /\ UNCHANGED next_id

SellItem(id, quantity) ==
    /\ StoreStep("sell_item", sell_item(stock, id, quantity), {})
    /\ UNCHANGED next_id

Delete(id) ==
    /\ StoreStep("delete", delete(stock, id), {})
    /\ UNCHANGED next_id

ResetListedPrice ==
    /\ s_ops < MaxOps
    /\ StoreStep("reset_listed_price",
                 [ok |-> TRUE, stock |-> reset_listed_price(stock), ret |-> None, events |-> <<"SET">>],
                 s_keys)
    /\ UNCHANGED next_id

StoreIds == 1..next_id

\* How many of the arguments of an update are Some.
FieldsGiven(args) == Cardinality({k \in DOMAIN args : IsSome(args[k])})

\* The argument lists StoreUpdate draws from: owned, price, minium_price,
\* listed_price, status, hidden, price_history.
UpdArgs == {a \in UpdOwned \X UpdPrice \X UpdMinium \X UpdListed \X UpdStatus \X UpdHidden \X UpdHistory : FieldsGiven(a) <= MaxFields}

StoreCreate ==
    /\ s_ops < MaxOps
    /\ \E url_name \in CreateUrls, quantity \in CreateQty, price \in CreatePrices,
       minium_price \in MinPrices, sub_type \in StoreSubTypes :
        Create(url_name, quantity, price, minium_price, sub_type)

StoreUpdate ==
    /\ s_ops < MaxOps
    /\ \E id \in StoreIds, owned \in UpdOwned, price \in UpdPrice,
       minium_price \in UpdMinium, listed_price \in UpdListed,
       status \in UpdStatus, hidden \in UpdHidden, price_history \in UpdHistory :
        /\ FieldsGiven(<<owned, price, minium_price, listed_price, status,
                         hidden, price_history>>) <= MaxFields
        /\ UpdateById(id, owned, price, minium_price, listed_price, status,
                      hidden, price_history)

StoreSell == s_ops < MaxOps /\ \E id \in StoreIds, quantity \in SellQty : SellItem(id, quantity)

StoreDelete == s_ops < MaxOps /\ \E id \in StoreIds : Delete(id)

StoreNext ==
    \/ StoreCreate
    \/ StoreUpdate
    \/ StoreSell
    \/ StoreDelete
    \/ ResetListedPrice

SpecStock == StoreInit /\ [][StoreNext]_vars

\* ---------------------------------------------------------------------------
\* Two create calls in flight.  create is an async fn: it awaits the lookup of
\* line 223 and later the update or the insert, and the executor may run the
\* other call between the two.  Nothing in StockItemModule serialises them.
\* ---------------------------------------------------------------------------
Creators == {1, 2}

CreateQuantities == {1, 2}

RaceTables == {<<>>, <<NewRow(1, "a", 2, IntRat(6), None, None)>>}

RaceInit ==
    /\ stock \in RaceTables
    /\ next_id = Len(stock) + 1
    /\ s_ops = 0
    /\ s_last = [op |-> "init", ok |-> TRUE, events |-> <<>>]
    /\ s_ret = None
    /\ s_keys = {}
    /\ \E quantity \in [Creators -> CreateQuantities], price \in [Creators -> CreatePrices] :
           s_tasks = [t \in Creators |->
                        [pc |-> "called", url |-> "a", quantity |-> quantity[t],
                         price |-> price[t], snap |-> None,
                         base |-> get_item_by_url_name(stock, "a")]]
    /\ KnapIdle
    /\ LoopIdle
    /\ CacheIdle

\* Line 223: the lookup, after which the call is suspended.
CreateRead(t) ==
    /\ t \in DOMAIN s_tasks
    /\ s_tasks[t].pc = "called"
    /\ s_tasks' = [s_tasks EXCEPT ![t].pc = "read",
                                  ![t].snap = CreateLookup(stock, s_tasks[t].url, None)]
    /\ UNCHANGED <<stock, next_id, s_ops, s_last, s_ret, s_keys>>
    /\ UNCHANGED <<knapVars, loopVars, cacheVars>>

\* Lines 224-333: the update or the insert, from what the lookup returned.
CreateWrite(t) ==
    /\ t \in DOMAIN s_tasks
    /\ s_tasks[t].pc = "read"
    /\ LET r == create_from(stock, next_id, s_tasks[t].snap, s_tasks[t].url,
                            s_tasks[t].quantity, s_tasks[t].price, None, None)
       IN  /\ stock' = r.stock
           /\ next_id' = r.next_id
           /\ s_ops' = s_ops + 1
           /\ s_last' = [op |-> r.tag, ok |-> r.ok, events |-> r.events]
           /\ s_ret' = r.ret
    /\ s_tasks' = [s_tasks EXCEPT ![t].pc = "done"]
    /\ UNCHANGED s_keys
    /\ UNCHANGED <<knapVars, loopVars, cacheVars>>

RaceNext ==
    \/ \E t \in Creators : CreateRead(t)
    \/ \E t \in Creators : CreateWrite(t)

SpecRace == RaceInit /\ [][RaceNext]_vars

Rows == {stock[i] : i \in 1..Len(stock)}

(***************************************************************************)
(* Orders (wfm_client/types/orders.rs) and the marketplace behind          *)
(* wfm.orders().  An order is [id, url, sub_type, order_type, platinum,    *)
(* quantity, visible, user, closed_avg, profit]; order ids are integers,   *)
(* 0 standing for the empty id "" of Order::default().  A SubType is its   *)
(* rank.  Orders is [buy_orders, sell_orders].                             *)
(***************************************************************************)
Me == "me"
EmptyId == 0
OrderDefault == [id |-> EmptyId, url |-> "", sub_type |-> None, order_type |-> "", platinum |-> 0, quantity |-> 0, visible |-> FALSE, user |-> "", closed_avg |-> None, profit |-> None]

Contains(seq, x) == \E i \in 1..Len(seq) : seq[i] = x
Range(seq) == {seq[i] : i \in 1..Len(seq)}
Side(orders, order_type) == IF order_type = "buy" THEN orders.buy_orders ELSE orders.sell_orders

find_order_by_url_sub_type(orders, url, order_type, sub_type) ==
    LET m == SelectSeq(Side(orders, order_type),
                       LAMBDA o : o.url = url /\ o.sub_type = sub_type)
    IN  IF m = <<>> THEN None ELSE Some(m[1])

filter_by_sub_type(orders, sub_type, include_unset) ==
    LET Keep(o) == o.sub_type = sub_type \/ (include_unset /\ o.sub_type = None)
    IN  [buy_orders |-> SelectSeq(orders.buy_orders, Keep),
         sell_orders |-> SelectSeq(orders.sell_orders, Keep)]

\* filter_by_username(name, true): the orders of every other user.
filter_by_username(orders, name) ==
    [buy_orders |-> SelectSeq(orders.buy_orders, LAMBDA o : o.user # name),
     sell_orders |-> SelectSeq(orders.sell_orders, LAMBDA o : o.user # name)]

Platinums(s) == {s[i].platinum : i \in 1..Len(s)}
MaxOf(S) == CHOOSE p \in S : \A q \in S : q <= p
MinOf(S) == CHOOSE p \in S : \A q \in S : p <= q

highest_price(orders, order_type) ==
    IF Side(orders, order_type) = <<>> THEN 0
    ELSE MaxOf(Platinums(Side(orders, order_type)))

lowest_order(orders, order_type) ==
    LET s == Side(orders, order_type)
        i == CHOOSE i \in 1..Len(s) :
                 /\ \A j \in 1..Len(s) : s[i].platinum <= s[j].platinum
                 /\ \A j \in 1..(i - 1) : s[j].platinum # s[i].platinum
    IN  s[i]

get_price_range(orders) ==
    IF orders.sell_orders = <<>> THEN 0
    ELSE MaxOf(Platinums(orders.sell_orders)) - MinOf(Platinums(orders.sell_orders))

update_order(orders, order) ==
    [buy_orders |-> [i \in 1..Len(orders.buy_orders) |->
                        IF orders.buy_orders[i].id = order.id THEN order
                        ELSE orders.buy_orders[i]],
     sell_orders |-> [i \in 1..Len(orders.sell_orders) |->
                        IF orders.sell_orders[i].id = order.id THEN order
                        ELSE orders.sell_orders[i]]]

delete_order_by_id(orders, order_type, id) ==
    IF order_type = "buy"
    THEN [orders EXCEPT !.buy_orders = SelectSeq(@, LAMBDA o : o.id # id)]
    ELSE [orders EXCEPT !.sell_orders = SelectSeq(@, LAMBDA o : o.id # id)]

OrderIds(orders) == {o.id : o \in Range(orders.buy_orders) \cup Range(orders.sell_orders)}

\* One remote call in the log.
RemoteCall(e, op, id, order_type, sub_type, platinum, quantity, ok, rep) ==
    [pass |-> e.pass, by |-> e.by, item |-> e.item, op |-> op, id |-> id, order_type |-> order_type, sub_type |-> sub_type, platinum |-> platinum, quantity |-> quantity, ok |-> ok, rep |-> rep]

\* The calls below thread e = [my_orders, remote, next, calls, n, err, ret,
\* rep, pass, by, item, events]: the mirror, the marketplace's copy of the
\* operator's orders, the next order id, the call log, the number of calls of
\* this step, whether a call has returned Err (the `?` then skips the rest),
\* what create returned, and the UpdateOrders/Delete events sent to the GUI.  The fail-th call of a step fails in transport; a delete
\* or update of an id the operator has no order under is rejected.
wfm_delete(e, id, fail) ==
    IF e.err THEN e
    ELSE LET ok == (e.n + 1 # fail) /\ id \in OrderIds(e.remote)
         IN  [e EXCEPT !.n = @ + 1, !.err = ~ok,
                       !.calls = Append(@, RemoteCall(e, "delete", id, "", None, 0, 0, ok, "")),
                       !.remote = IF ok THEN delete_order_by_id(delete_order_by_id(@, "buy", id), "sell", id)
                                  ELSE @]

wfm_update(e, id, platinum, quantity, visible, fail) ==
    IF e.err THEN e
    ELSE LET ok == (e.n + 1 # fail) /\ id \in OrderIds(e.remote)
             Upd(o) == IF o.id = id THEN [o EXCEPT !.platinum = platinum, !.quantity = quantity, !.visible = visible] ELSE o
         IN  [e EXCEPT !.n = @ + 1, !.err = ~ok,
                       !.calls = Append(@, RemoteCall(e, "update", id, "", None, platinum, quantity, ok, "")),
                       !.remote = IF ok THEN [buy_orders |-> [i \in 1..Len(@.buy_orders) |-> Upd(@.buy_orders[i])],
                                              sell_orders |-> [i \in 1..Len(@.sell_orders) |-> Upd(@.sell_orders[i])]]
                                  ELSE @]

\* create answers ("created", Some(order)) or ("order_limit_reached", None).
wfm_create(e, wfm_id, order_type, platinum, quantity, visible, sub_type, fail, rep) ==
    IF e.err THEN e
    ELSE LET ok == e.n + 1 # fail
             order == [OrderDefault EXCEPT !.id = e.next, !.url = wfm_id, !.sub_type = sub_type, !.order_type = order_type, !.platinum = platinum, !.quantity = quantity, !.visible = visible, !.user = Me]
             made == ok /\ rep = "created"
         IN  [e EXCEPT !.n = @ + 1, !.err = ~ok,
                       !.calls = Append(@, RemoteCall(e, "create", IF made THEN e.next ELSE EmptyId, order_type, sub_type, platinum, quantity, ok, IF ok THEN rep ELSE "")),
                       !.rep = IF ok THEN rep ELSE "",
                       !.ret = IF made THEN Some(order) ELSE None,
                       !.next = IF made THEN @ + 1 ELSE @,
                       !.remote = IF ~made THEN @
                                  ELSE IF order_type = "buy" THEN [@ EXCEPT !.buy_orders = Append(@, order)]
                                  ELSE [@ EXCEPT !.sell_orders = Append(@, order)]]

\* send_order_update(operation, json!({"id": id})): the event, with the
\* number of remote calls issued before it; not reached after a failed call.
send_order_update(e, operation, id) ==
    IF e.err THEN e
    ELSE [e EXCEPT !.events = Append(@, [op |-> operation, id |-> id, at |-> Len(e.calls)])]

(***************************************************************************)
(* ItemModule::check_stock and its decisions (live_scraper/modules/item.rs)*)
(* The loop's stock_item::Model is the store's row: wfm_url is url, bought *)
(* is price, minimum_price is minium_price, list_price is listed_price and *)
(* is_hidden is hidden.                                                    *)
(***************************************************************************)
\* filtered_items of get_interesting_items: the price-statistics rows kept by
\* the filter, with Rust's precedence (&& binds tighter than ||).
filtered_items(settings, prices, stock_tbl) ==
    LET stock_item == [i \in 1..Len(stock_tbl) |-> stock_tbl[i].url]
        Keep(item) ==
            \/ /\ item.order_type = "closed"
               /\ item.volume > settings.volume_threshold
               /\ item.range > settings.range_threshold
               /\ ~Contains(settings.blacklist, item.url_name)
               /\ \/ settings.strict_whitelist /\ Contains(settings.whitelist, item.url_name)
                  \/ /\ \/ ~settings.strict_whitelist
                        \/ /\ Contains(settings.whitelist, item.url_name)
                           /\ RatLe(item.avg_price, IntRat(settings.avg_price_cap))
                     /\ item.week_price_shift >= settings.price_shift_threshold
               /\ item.week_price_shift >= settings.price_shift_threshold
            \/ Contains(stock_item, item.url_name) /\ item.order_type = "closed"
    IN  SelectSeq(prices, Keep)

\* A String is the sequence of its pieces; {:?} of a String adds the quotes.
BoolStr(b) == IF b THEN "true" ELSE "false"
RECURSIVE Join(_)
Join(list) == IF Len(list) <= 1 THEN list ELSE <<list[1], ",">> \o Join(Tail(list))
Quoted(str) == <<"\"">> \o str \o <<"\"">>
starts_with(str, prefix) == Len(prefix) <= Len(str) /\ SubSeq(str, 1, Len(prefix)) = prefix

\* settings.stock_mode, which no operation of the model changes.
StockMode == "All"

\* query_id (lines 402-412): the slot labelled blacklist holds the stock urls.
query_id(settings, stock_tbl) ==
    <<"get_buy|vol:", ToString(settings.volume_threshold), "ran:", ToString(settings.range_threshold),
      "avg_p", ToString(settings.avg_price_cap), "price_shift:", ToString(settings.price_shift_threshold),
      "strict_whitelist:", BoolStr(settings.strict_whitelist), "whitelist">>
    \o Quoted(Join(settings.whitelist)) \o <<"blacklist:">>
    \o Quoted(Join([i \in 1..Len(stock_tbl) |-> stock_tbl[i].url])) \o <<":mode:", StockMode>>

get_cache_queried(memo, key) ==
    IF \E e \in memo : e.key = key THEN Some((CHOOSE e \in memo : e.key = key).df) ELSE None

remove_cache_queried(memo, key) == {e \in memo : ~starts_with(e.key, key)}

add_cache_queried(memo, key, df) == {e \in memo : e.key # key} \cup {[key |-> key, df |-> df]}

\* get_interesting_items: [ret, memo].
get_interesting_items(memo, settings, prices, stock_tbl) ==
    LET key == query_id(settings, stock_tbl)
        review == get_cache_queried(memo, key)
        df == filtered_items(settings, prices, stock_tbl)
    IN  IF IsSome(review) THEN [ret |-> Unwrap(review), memo |-> memo]
        ELSE [ret |-> df, memo |-> add_cache_queried(remove_cache_queried(memo, key), key, df)]

\* The side check_stock prunes under order_mode (lines 111-116).
PruneSide_Same(order_mode) == IF order_mode = "Buy" THEN "buy" ELSE IF order_mode = "Sell" THEN "sell" ELSE ""

PruneSide(order_mode) == IF order_mode = "Buy" THEN "sell" ELSE IF order_mode = "Sell" THEN "buy" ELSE ""

\* As HashSetFromIter, keeping every occurrence of the list.
HashSetFromIter_Keep(list) == [u \in Range(list) |-> Cardinality({i \in 1..Len(list) : list[i] = u})]

\* HashSet::from_iter(interesting_items): the urls still to visit, each once
\* (a map url -> visits left; the set's iteration order is arbitrary).
HashSetFromIter(list) == [u \in Range(list) |-> 1]

RECURSIVE DeleteAll(_, _, _)
DeleteAll(e, ids, fail) ==
    IF ids = <<>> THEN e ELSE DeleteAll(wfm_delete(e, Head(ids), fail), Tail(ids), fail)

\* check_stock up to the loop: [e, stock_items, price_items, todo, memo].
check_stock_start(e0, memo, settings, prices, stock_tbl, fail) ==
    LET order_mode == settings.order_mode
        queried == get_interesting_items(memo, settings, prices, stock_tbl)
        price_scraper_interesting_items_new == queried.ret
        sells == order_mode \in {"Sell", "Both"}
        buys == order_mode \in {"Buy", "Both"}
        stock_urls == IF sells THEN [i \in 1..Len(stock_tbl) |-> stock_tbl[i].url] ELSE <<>>
        my_orders == e0.remote
        NotBlack(o) == ~Contains(settings.blacklist, o.url)
        pruned == IF PruneSide(order_mode) = "buy" THEN SelectSeq(my_orders.buy_orders, NotBlack)
                  ELSE IF PruneSide(order_mode) = "sell" THEN SelectSeq(my_orders.sell_orders, NotBlack)
                  ELSE <<>>
        e1 == DeleteAll([e0 EXCEPT !.my_orders = my_orders],
                        [i \in 1..Len(pruned) |-> pruned[i].id], fail)
        item_names == [i \in 1..Len(price_scraper_interesting_items_new) |->
                          price_scraper_interesting_items_new[i].url_name]
        interesting_items == settings.whitelist \o stock_urls \o (IF buys THEN item_names ELSE <<>>)
        Interesting(o) == Contains(interesting_items, o.url)
        Annotate(o) ==
            LET m == SelectSeq(price_scraper_interesting_items_new, LAMBDA item : item.url_name = o.url)
                closed_avg == IF m = <<>> THEN IntRat(0) ELSE m[1].avg_price
            IN  [o EXCEPT !.closed_avg = Some(closed_avg),
                          !.profit = Some(RatSub(closed_avg, IntRat(o.platinum)))]
        kept == SelectSeq(my_orders.buy_orders, Interesting)
        buy_orders_df == [i \in 1..Len(kept) |-> Annotate(kept[i])]
    IN  [e |-> IF buys /\ my_orders.buy_orders # <<>> /\ ~e1.err
               THEN [e1 EXCEPT !.my_orders.buy_orders = buy_orders_df] ELSE e1,
         stock_items |-> IF sells THEN Some(stock_tbl) ELSE None,
         price_items |-> price_scraper_interesting_items_new,
         todo |-> HashSetFromIter(interesting_items),
         memo |-> queried.memo]

RECURSIVE DeleteUnselected(_, _, _)
DeleteUnselected(e, unselected, fail) ==
    IF unselected = <<>> THEN e
    ELSE LET d == wfm_delete(send_order_update(e, "Delete", Head(unselected).id), Head(unselected).id, fail)
         IN  DeleteUnselected(IF d.err THEN d
                              ELSE [d EXCEPT !.my_orders = delete_order_by_id(@, "buy", Head(unselected).id)],
                              Tail(unselected), fail)

\* The knapsack gate of lines 623-624.
BuyGate(closed_avg_metric, price_range, status, user_order) ==
    \/ closed_avg_metric >= 30 /\ price_range >= 15
    \/ price_range >= 21 /\ status # "Live" /\ ~user_order.visible

\* As KnapsackCapacity, with twice the cap.
KnapsackCapacity_Double(settings) == 2 * settings.max_total_price_cap

\* The capacity handed to knapsack.
KnapsackCapacity(settings) == settings.max_total_price_cap

\* Option::unwrap_or, and the else of an `if let Some`.
UnwrapOr(o, default) == IF o = None THEN default ELSE Unwrap(o)

\* The price a buy order is posted at and what it would earn (lines 556-611):
\* [post_price, status, closed_avg_metric, potential_profit, price_range].
BuyQuote(live_orders, closed_avg, settings) ==
    LET highest == highest_price(live_orders, "buy")
        price_range == get_price_range(live_orders)
        empty_side == highest = 0 /\ RatLt(IntRat(25), closed_avg)
        post_price == IF empty_side THEN Max(price_range - 40, TDiv(price_range, 3) - 1) ELSE highest
        status == IF empty_side THEN "Live" ELSE "InActive"
        closed_avg_metric == Trunc(RatSub(closed_avg, IntRat(post_price)))
    IN  [post_price |-> post_price,
         status |-> IF post_price > settings.avg_price_cap /\ status # "Live" THEN "Overpriced" ELSE status,
         closed_avg_metric |-> closed_avg_metric,
         potential_profit |-> closed_avg_metric - 1,
         price_range |-> price_range]

\* The operator's buy orders and the proposed one, through knapsack (lines
\* 626-650); the proposed order carries the empty id.
BuySelection(mine, url, q, settings) ==
    knapsack([i \in 1..Len(mine) |-> [weight |-> mine[i].platinum, value |-> Unwrap(mine[i].profit), url |-> mine[i].url, id |-> mine[i].id]]
                \o <<[weight |-> q.post_price, value |-> IntRat(q.potential_profit), url |-> url, id |-> EmptyId]>>,
             KnapsackCapacity(settings))

\* The delete, update or create of the buy order (lines 694-762); after a
\* failed call (e1.err) nothing more is done.
BuyOrder(e1, item_info, sub_type, user_order, closed_avg, q, status, fail, rep) ==
    IF status = "Underpriced" /\ user_order.visible
    THEN LET d == wfm_delete(send_order_update(e1, "Delete", user_order.id), user_order.id, fail)
         IN  IF d.err THEN d ELSE [d EXCEPT !.my_orders = delete_order_by_id(@, "buy", user_order.id)]
    ELSE IF status = "Live" /\ user_order.visible
    THEN LET u == wfm_update(e1, user_order.id, q.post_price, 1, user_order.visible, fail)
         IN  IF u.err \/ user_order.platinum = q.post_price THEN u
             ELSE [u EXCEPT !.my_orders = update_order(@, [user_order EXCEPT !.platinum = q.post_price])]
    ELSE IF status = "Live" /\ ~user_order.visible
    THEN LET c == wfm_create(e1, item_info.wfm_id, "buy", q.post_price, 1, TRUE, sub_type, fail, rep)
         IN  IF c.err \/ c.ret = None THEN c
             ELSE [c EXCEPT !.my_orders.buy_orders =
                      Append(@, [Unwrap(c.ret) EXCEPT !.closed_avg = Some(closed_avg),
                                                      !.profit = Some(IntRat(q.potential_profit))])]
    ELSE e1

\* The gate, the selection k and the deletes of the unselected orders (lines
\* 623-692), then the order itself.
BuyDecide(e0, item_info, sub_type, user_order, closed_avg, q, k, fail, rep) ==
    LET gate == BuyGate(q.closed_avg_metric, q.price_range, q.status, user_order)
        chosen == \E i \in 1..Len(k.selected) : k.selected[i].url = item_info.wfm_url_name
        status == IF ~gate THEN q.status ELSE IF chosen THEN "Live" ELSE "Underpriced"
    IN  [e |-> BuyOrder(IF gate /\ chosen THEN DeleteUnselected(e0, k.unselected, fail) ELSE e0,
                        item_info, sub_type, user_order, closed_avg, q, status, fail, rep),
         status |-> status, post_price |-> q.post_price, profit |-> q.potential_profit, knap |-> gate]

\* The body from line 553 on, user_order and the filtered live_orders found.
BuyFiltered(e0, item_info, sub_type, user_order, live_orders, closed_avg, settings, fail, rep) ==
    LET q == BuyQuote(live_orders, closed_avg, settings)
    IN  IF Len(live_orders.sell_orders) <= 0
        THEN [e |-> e0, status |-> "InActive", post_price |-> 0, profit |-> 0, knap |-> FALSE]
        ELSE IF Len(live_orders.buy_orders) <= 0
        THEN [e |-> e0, status |-> q.status, post_price |-> q.post_price, profit |-> q.potential_profit, knap |-> FALSE]
        ELSE BuyDecide(e0, item_info, sub_type, user_order, closed_avg, q,
                       BuySelection(e0.my_orders.buy_orders, item_info.wfm_url_name, q, settings), fail, rep)

\* compare_live_orders_when_buying: [e, status, post_price, profit, knap],
\* knap telling whether the knapsack step ran.
compare_live_orders_when_buying(e0, item_info, item_rank, live_orders, closed_avg, settings, fail, rep) ==
    BuyFiltered(e0, item_info, item_rank,
                UnwrapOr(find_order_by_url_sub_type(e0.my_orders, item_info.wfm_url_name, "buy", item_rank), OrderDefault),
                filter_by_sub_type(live_orders, item_rank, FALSE), closed_avg, settings, fail, rep)

\* As IsLowProfit, with a profit of 0 accepted.
IsLowProfit_Strict(profit) == profit < 0

\* The test of line 879.
IsLowProfit(profit) == profit <= 0

\* As SellQuote, without the floor of the row's minimum price.
SellQuote_NoFloor(live_orders, moving_avg, stock_item, settings) ==
    LET bought_price == Trunc(stock_item.price)
        sellers == Len(live_orders.sell_orders) > 2
        lowest == IF sellers THEN lowest_order(live_orders, "sell") ELSE OrderDefault
        lowest_price == IF sellers THEN lowest.platinum ELSE 0
        p1 == IF bought_price > lowest_price THEN bought_price + settings.min_profit ELSE lowest_price
        sma == p1 < moving_avg - settings.min_sma
        post_price == IF sma THEN moving_avg ELSE p1
    IN  [post_price |-> post_price, profit |-> post_price - bought_price, sma |-> sma,
         user_id |-> IF sellers THEN lowest.user ELSE "N/A"]

\* The price a sell order is posted at (lines 845-875): [post_price, profit,
\* sma, user_id].
SellQuote(live_orders, moving_avg, stock_item, settings) ==
    LET bought_price == Trunc(stock_item.price)
        minimum_price == stock_item.minium_price
        sellers == Len(live_orders.sell_orders) > 2
        lowest == IF sellers THEN lowest_order(live_orders, "sell") ELSE OrderDefault
        lowest_price == IF sellers THEN lowest.platinum ELSE 0
        p1 == IF bought_price > lowest_price THEN bought_price + settings.min_profit ELSE lowest_price
        sma == p1 < moving_avg - settings.min_sma
        p2 == IF sma THEN moving_avg ELSE p1
        post_price == IF IsSome(minimum_price) /\ p2 < Unwrap(minimum_price) THEN Unwrap(minimum_price) ELSE p2
    IN  [post_price |-> post_price, profit |-> post_price - bought_price, sma |-> sma,
         user_id |-> IF sellers THEN lowest.user ELSE "N/A"]

\* The delete, update or create of the sell order (lines 890-950).
SellOrder(e0, item_info, user_order, stock_item, low_profit, q, fail, rep) ==
    IF user_order.visible
    THEN IF low_profit
         THEN LET d == wfm_delete(e0, user_order.id, fail)
              IN  send_order_update([d EXCEPT !.my_orders = IF d.err THEN @ ELSE delete_order_by_id(@, "sell", user_order.id)], "Delete", user_order.id)
         ELSE LET u == wfm_update(e0, user_order.id, q.post_price, stock_item.owned, user_order.visible, fail)
              IN  IF u.err \/ user_order.platinum = q.post_price THEN u
                  ELSE [u EXCEPT !.my_orders = update_order(@, [user_order EXCEPT !.platinum = q.post_price, !.quantity = stock_item.owned])]
    ELSE IF ~low_profit
    THEN wfm_create(e0, item_info.wfm_id, "sell", q.post_price, stock_item.owned, TRUE, stock_item.sub_type, fail, rep)
    ELSE e0

\* As SellOutcome, with the answer of create not looked at.
SellOutcome_NoLimit(e1, item1, stock_item0, q) ==
    LET changed == \/ item1.listed_price # stock_item0.listed_price
                   \/ item1.status # stock_item0.status
                   \/ Len(item1.price_history) # Len(stock_item0.price_history)
    IN  [e |-> e1, stock_item |-> item1, persist |-> ~e1.err /\ changed, priced |-> TRUE,
         status |-> item1.status, post_price |-> q.post_price, profit |-> q.profit, msg |-> ""]

\* What the function leaves (lines 927-961), e1 being the state after the
\* order's call and item1 the row after the pricing; msg is the
\* order_limit_reached message of line 925 when it is sent.
SellOutcome(e1, item1, stock_item0, q) ==
    LET limit == ~e1.err /\ e1.rep = "order_limit_reached"
        item2 == IF limit THEN [item1 EXCEPT !.status = "OrderLimit", !.listed_price = None] ELSE item1
        changed == \/ item2.listed_price # stock_item0.listed_price
                   \/ item2.status # stock_item0.status
                   \/ Len(item2.price_history) # Len(stock_item0.price_history)
    IN  [e |-> e1, stock_item |-> item2, persist |-> ~e1.err /\ changed, priced |-> TRUE,
         status |-> item2.status, post_price |-> q.post_price, profit |-> q.profit,
         msg |-> IF limit THEN "order_limit_reached" ELSE ""]

\* The row after the pricing (lines 877-888), then the order.
SellPriced(e0, item_info, user_order, stock_item0, q, fail, rep) ==
    LET last == stock_item0.price_history
        item1 == IF IsLowProfit(q.profit)
                 THEN [stock_item0 EXCEPT !.status = "ToLowProfit", !.listed_price = None]
                 ELSE [stock_item0 EXCEPT
                          !.status = IF q.sma THEN "SMALimit" ELSE "Live",
                          !.listed_price = Some(q.post_price),
                          !.price_history = IF last = <<>> \/ last[Len(last)].price # q.post_price
                                            THEN Append(@, [user_id |-> q.user_id, price |-> q.post_price]) ELSE @]
    IN  SellOutcome(SellOrder(e0, item_info, user_order, stock_item0, item1.status = "ToLowProfit", q, fail, rep),
                    item1, stock_item0, q)

\* The body from line 801 on, user_order and the filtered live_orders found:
\* a hidden item's visible order is deleted and nothing else is done.
SellFiltered(e0, item_info, moving_avg, user_order, live_orders, stock_item0, settings, fail, rep) ==
    IF user_order.visible /\ stock_item0.hidden
    THEN LET hidden == wfm_delete(send_order_update(e0, "Delete", user_order.id), user_order.id, fail)
         IN  [e |-> IF hidden.err THEN hidden ELSE [hidden EXCEPT !.my_orders = delete_order_by_id(@, "sell", user_order.id)],
              stock_item |-> stock_item0, persist |-> FALSE, priced |-> FALSE, status |-> stock_item0.status, post_price |-> 0, profit |-> 0, msg |-> ""]
    ELSE SellPriced(e0, item_info, user_order, stock_item0, SellQuote(live_orders, moving_avg, stock_item0, settings), fail, rep)

\* compare_live_orders_when_selling: [e, stock_item, persist, priced, status,
\* post_price, profit]; stock_item is the row as the function leaves it,
\* persist tells whether it reaches StockItemMutation::update_by_id and
\* priced whether the function went past the hidden-item return.
compare_live_orders_when_selling(e0, item_info, moving_avg, live_orders, stock_item, settings, fail, rep) ==
    SellFiltered(e0, item_info, Trunc(moving_avg),
                 UnwrapOr(find_order_by_url_sub_type(e0.my_orders, item_info.wfm_url_name, "sell", stock_item.sub_type), OrderDefault),
                 filter_by_sub_type(live_orders, stock_item.sub_type, FALSE), stock_item, settings, fail, rep)

\* StockItemMutation::update_by_id(conn, id, model): the row is written as
\* the model holds it.
StockItemMutation_update_by_id(tbl, id, model) ==
    [i \in 1..Len(tbl) |-> IF tbl[i].id = id THEN model ELSE tbl[i]]

\* StockItemMutation::update_all(conn, status, list_price): every row gets
\* the status and the list price.
StockItemMutation_update_all(tbl, status, list_price) ==
    [i \in 1..Len(tbl) |-> [tbl[i] EXCEPT !.status = status, !.listed_price = list_price]]

\* cache.tradable_items().find_by_url_name
find_by_url_name(url_name) ==
    IF url_name \in Catalog
    THEN Some([wfm_url_name |-> url_name, wfm_id |-> url_name,
               max_rank |-> IF url_name = "b" THEN Some(5) ELSE None])
    ELSE None

\* wfm.orders().get_orders_by_item: the other users' live orders and the
\* operator's own visible ones.
get_orders_by_item(live, remote, url) ==
    [buy_orders |-> live[url].buy_orders \o SelectSeq(remote.buy_orders, LAMBDA o : o.url = url /\ o.visible),
     sell_orders |-> live[url].sell_orders \o SelectSeq(remote.sell_orders, LAMBDA o : o.url = url /\ o.visible)]

(***************************************************************************)
(* SpecLoop: check_stock run MaxPass times in succession over a small      *)
(* world: two catalogued urls, one operator, a few live orders.            *)
(***************************************************************************)
MaxPass == 2
MaxFail == 2
OrderModes == {"Buy", "Sell", "Both"}
PriceCaps == {12, 20}
ErrorLevels == {"Warning", "Error"}
CreateReplies == {"created", "order_limit_reached"}
\* What the marketplace does during one step: <<fail, lvl, rep>>, the fail-th
\* call returning Err at level lvl (0: none), create answering rep.
Outcomes ==
    {<<0, "Error", rep>> : rep \in CreateReplies}
    \cup {<<fail, lvl, "created">> : fail \in 1..MaxFail, lvl \in ErrorLevels}

\* What the marketplace does during one iteration: the fetch of the live
\* orders fails, or it succeeds and the decision's calls go as in Outcomes.
ItemOutcomes ==
    {<<"ok", o[1], o[2], o[3]>> : o \in Outcomes}
    \cup {<<lvl, 0, "Error", "created">> : lvl \in ErrorLevels}

LoopSettings ==
    {[DefaultSettings EXCEPT !.order_mode = m, !.max_total_price_cap = c,
                             !.avg_price_cap = 80, !.volume_threshold = 5,
                             !.range_threshold = 5, !.min_sma = 4, !.min_profit = 2] :
        m \in OrderModes, c \in PriceCaps}

PriceInfo(url, mod_rank) ==
    [url_name |-> url, order_type |-> "closed", volume |-> 10, range |-> 10, avg_price |-> IntRat(45), moving_avg |-> Some(IntRat(8)), week_price_shift |-> 1, mod_rank |-> mod_rank]
PriceTables == {<<PriceInfo("a", None)>>, <<PriceInfo("a", None), PriceInfo("b", Some(5))>>}

LiveOrder(url, sub_type, order_type, platinum, user) ==
    [OrderDefault EXCEPT !.id = 100 + platinum, !.url = url, !.sub_type = sub_type, !.order_type = order_type, !.platinum = platinum, !.quantity = 1, !.visible = TRUE, !.user = user]
Book(url, sub_type, order_type, plats) ==
    [i \in 1..Len(plats) |-> LiveOrder(url, sub_type, order_type, plats[i], <<"u1", "u2", "u3">>[i])]
Books == {<<<<>>, <<>>>>, <<<<10>>, <<50, 75>>>>, <<<<10>>, <<4, 50, 75>>>>, <<<<>>, <<4, 50, 75>>>>}
Markets ==
    {[u \in Catalog |->
        IF u = "a" THEN [buy_orders |-> Book("a", None, "buy", bk[1]), sell_orders |-> Book("a", None, "sell", bk[2])]
        ELSE [buy_orders |-> Book("b", Some(5), "buy", <<6>>), sell_orders |-> Book("b", Some(5), "sell", <<30, 60>>)]] :
        bk \in Books}

MyOrder(id, url, sub_type, order_type, platinum, quantity) ==
    [OrderDefault EXCEPT !.id = id, !.url = url, !.sub_type = sub_type, !.order_type = order_type, !.platinum = platinum, !.quantity = quantity, !.visible = TRUE, !.user = Me]
OrderA == MyOrder(1, "a", None, "buy", 10, 1)
OrderB == MyOrder(2, "b", Some(5), "buy", 8, 1)
OrderS == MyOrder(3, "a", None, "sell", 9, 2)
OperatorOrders ==
    {[buy_orders |-> o[1], sell_orders |-> o[2]] :
        o \in {<<<<>>, <<>>>>, <<<<OrderA>>, <<>>>>, <<<<OrderB>>, <<>>>>, <<<<OrderA, OrderB>>, <<>>>>,
               <<<<>>, <<OrderS>>>>, <<<<OrderA>>, <<OrderS>>>>}}

LoopStockTables ==
    {<<>>} \cup
    {<<[NewRow(1, "a", 2, IntRat(2), None, None)
          EXCEPT !.price = v[1], !.price_history = FilledHistory(v[2]), !.hidden = v[3]]>> :
        v \in {<<<<9, 2>>, 5, FALSE>>, <<<<1, 1>>, 0, TRUE>>}}

LoopInit ==
    /\ l_settings \in LoopSettings
    /\ l_prices \in PriceTables
    /\ l_market \in Markets
    /\ l_remote \in OperatorOrders
    /\ l_next = 4
    /\ stock \in LoopStockTables
    /\ next_id = Len(stock) + 1
    /\ s_ops = 0 /\ s_last = [op |-> "init", ok |-> TRUE, events |-> <<>>] /\ s_ret = None /\ s_keys = {} /\ s_tasks = <<>>
    /\ LoopStopped
    /\ KnapIdle
    /\ CacheIdle

StepEnv(by, item) ==
    [my_orders |-> l_my_orders, remote |-> l_remote, next |-> l_next, calls |-> l_calls, n |-> 0, err |-> FALSE, ret |-> None, rep |-> "", pass |-> l_pass, by |-> by, item |-> item, events |-> <<>>]

CleanCalls(calls) == \A i \in 1..Len(calls) : calls[i].ok /\ calls[i].rep # "order_limit_reached"

Commit(e) ==
    /\ l_my_orders' = e.my_orders
    /\ l_remote' = e.remote
    /\ l_next' = e.next
    /\ l_calls' = e.calls
    /\ l_clean' = (l_clean /\ CleanCalls(e.calls))

\* check_stock from its entry to the loop; a failed pruning delete returns Err.
Start ==
    /\ l_pc = "idle" \/ (l_pc = "done" /\ l_result = "ok" /\ l_pass < MaxPass)
    /\ \E fail \in 0..MaxFail :
        LET e0 == [StepEnv("prune", "") EXCEPT !.pass = l_pass + 1, !.my_orders = EmptyOrders, !.calls = <<>>]
            r == check_stock_start(e0, l_memo, l_settings, l_prices, stock, fail)
        IN  /\ Commit(r.e)
            /\ l_memo' = r.memo
            /\ l_stock_items' = r.stock_items
            /\ l_price_items' = r.price_items
            /\ l_todo' = r.todo
            /\ l_pc' = IF r.e.err THEN "done" ELSE "loop"
            /\ l_result' = IF r.e.err THEN "err" ELSE "none"
            /\ l_last' = [LastNone EXCEPT !.fn = "start", !.err = r.e.err]
    /\ l_pass' = l_pass + 1
    /\ l_cur' = ""
    /\ l_stopped' = ~l_running
    /\ UNCHANGED <<loopEnv, l_running, l_queue, knapVars, storeVars, cacheVars>>

\* One iteration of the loop up to the end of the buy decision; fetch is
\* what get_orders_by_item returns: "ok" or the level of its error.
LoopItem(item, fetch, fail, lvl, rep) ==
    /\ l_pc = "loop"
    /\ l_todo[item] > 0
    /\ l_todo' = [l_todo EXCEPT ![item] = @ - 1]
    /\ LET item_info == find_by_url_name(item)
           live0 == get_orders_by_item(l_market, l_remote, item)
           stopped == ~l_running \/ item = "" \/ item_info = None
           skip == stopped \/ (live0.buy_orders = <<>> /\ live0.sell_orders = <<>>)
           rows == IF IsSome(l_stock_items) THEN Unwrap(l_stock_items) ELSE <<>>
           stock_item == get_item_by_url_name(rows, item)
           stats == SelectSeq(l_price_items, LAMBDA p : p.url_name = item)
           item_rank == IF stats # <<>> THEN stats[1].mod_rank ELSE Unwrap(item_info).max_rank
           closed_avg == IF stats # <<>> THEN stats[1].avg_price ELSE IntRat(0)
           live_orders == filter_by_username(live0, Me)
           buys == l_settings.order_mode \in {"Buy", "Both"}
           sells == l_settings.order_mode \in {"Sell", "Both"} /\ IsSome(stock_item)
           r == compare_live_orders_when_buying(StepEnv("buy", item), Unwrap(item_info), item_rank, live_orders, closed_avg, l_settings, fail, rep)
           abort == r.e.err /\ lvl # "Warning"
       IN  IF ~stopped /\ fetch # "ok"
           THEN /\ l_pc' = "done" /\ l_cur' = "" /\ l_result' = "err"
                /\ l_last' = [LastNone EXCEPT !.fn = "fetch", !.item = item, !.ncalls = Len(l_calls), !.err = TRUE, !.lvl = fetch]
                /\ UNCHANGED <<l_my_orders, l_remote, l_next, l_calls, l_clean>>
           ELSE IF skip \/ ~buys
           THEN /\ l_pc' = IF ~skip /\ sells THEN "sell" ELSE "loop"
                /\ l_cur' = IF ~skip /\ sells THEN item ELSE ""
                /\ l_last' = [LastNone EXCEPT !.fn = "skip", !.item = item, !.ncalls = Len(l_calls)]
                /\ UNCHANGED <<l_my_orders, l_remote, l_next, l_calls, l_clean, l_result>>
           ELSE /\ Commit(r.e)
                /\ l_pc' = IF abort THEN "done" ELSE IF sells THEN "sell" ELSE "loop"
                /\ l_cur' = IF ~abort /\ sells THEN item ELSE ""
                /\ l_result' = IF abort THEN "err" ELSE l_result
                /\ l_last' = [fn |-> "buy", item |-> item, status |-> r.status, post_price |-> r.post_price, profit |-> r.profit, list_price |-> None, ncalls |-> Len(l_calls), err |-> r.e.err, lvl |-> IF r.e.err THEN lvl ELSE "", msg |-> "", knap |-> r.knap, events |-> r.e.events]
    /\ UNCHANGED <<loopEnv, l_stock_items, l_price_items, l_pass, ctlVars, l_memo, knapVars, storeVars, cacheVars>>

\* The sell decision of the current item.
LoopSell(fail, lvl, rep) ==
    /\ l_pc = "sell"
    /\ LET item_info == Unwrap(find_by_url_name(l_cur))
           stock_item == Unwrap(get_item_by_url_name(Unwrap(l_stock_items), l_cur))
           stats == SelectSeq(l_price_items, LAMBDA p : p.url_name = l_cur)
           moving_avg == IF stats # <<>> /\ IsSome(stats[1].moving_avg) THEN Unwrap(stats[1].moving_avg) ELSE IntRat(0)
           live_orders == filter_by_username(get_orders_by_item(l_market, l_remote, l_cur), Me)
           r == compare_live_orders_when_selling(StepEnv("sell", l_cur), item_info, moving_avg, live_orders, stock_item, l_settings, fail, rep)
           abort == r.e.err /\ lvl # "Warning"
       IN  /\ Commit(r.e)
           /\ stock' = IF r.persist THEN StockItemMutation_update_by_id(stock, stock_item.id, r.stock_item) ELSE stock
           /\ l_pc' = IF abort THEN "done" ELSE "loop"
           /\ l_result' = IF abort THEN "err" ELSE l_result
           /\ l_last' = [fn |-> IF r.priced THEN "sell" ELSE "sell_hidden", item |-> l_cur, status |-> r.status, post_price |-> r.post_price, profit |-> r.profit, list_price |-> r.stock_item.listed_price, ncalls |-> Len(l_calls), err |-> r.e.err, lvl |-> IF r.e.err THEN lvl ELSE "", msg |-> r.msg, knap |-> FALSE, events |-> r.e.events]
    /\ l_cur' = ""
    /\ UNCHANGED <<loopEnv, l_stock_items, l_price_items, l_todo, l_pass, ctlVars, l_memo, knapVars, next_id, s_ops, s_last, s_ret, s_keys, s_tasks, cacheVars>>

\* The loop has visited every interesting item: check_stock returns Ok.
Finish ==
    /\ l_pc = "loop"
    /\ \A u \in DOMAIN l_todo : l_todo[u] = 0
    /\ l_pc' = "done"
    /\ l_result' = "ok"
    /\ UNCHANGED <<loopEnv, l_remote, l_next, l_my_orders, l_stock_items, l_price_items, l_todo, l_cur, l_pass, l_calls, l_last, l_clean, ctlVars, l_memo, knapVars, storeVars, cacheVars>>

LoopIterate == \E item \in DOMAIN l_todo, o \in ItemOutcomes : LoopItem(item, o[1], o[2], o[3], o[4])

LoopSellStep == \E o \in Outcomes : LoopSell(o[1], o[2], o[3])

LoopNext ==
    \/ Start
    \/ LoopIterate
    \/ LoopSellStep
    \/ Finish

SpecLoop == LoopInit /\ [][LoopNext]_vars

(***************************************************************************)
(* SpecCtl: check_stock and delete_all_orders, MaxPass operations in all,  *)
(* while the running flag is switched by the stop and start commands; the  *)
(* operator has orders on both sides and a blacklist.                      *)
(***************************************************************************)
OrderT == MyOrder(4, "b", Some(5), "sell", 30, 1)
CtlSettings ==
    {[s EXCEPT !.blacklist = b] : s \in {t \in LoopSettings : t.max_total_price_cap = 12}, b \in {<<>>, <<"a">>}}
CtlOrders == [buy_orders |-> <<OrderA, OrderB>>, sell_orders |-> <<OrderS, OrderT>>]
CtlStock == <<[NewRow(1, "a", 2, IntRat(2), None, None) EXCEPT !.status = "Live", !.listed_price = Some(9)]>>

CtlInit ==
    /\ l_settings \in CtlSettings
    /\ l_prices = <<PriceInfo("a", None), PriceInfo("b", Some(5))>>
    /\ l_market \in {m \in Markets : Len(m["a"].buy_orders) = 1 /\ Len(m["a"].sell_orders) = 3}
    /\ l_remote = CtlOrders
    /\ l_next = 5
    /\ stock = CtlStock
    /\ next_id = Len(stock) + 1
    /\ s_ops = 0 /\ s_last = [op |-> "init", ok |-> TRUE, events |-> <<>>] /\ s_ret = None /\ s_keys = {} /\ s_tasks = <<>>
    /\ LoopStopped
    /\ KnapIdle
    /\ CacheIdle

\* client.set_running(running): the stop and start commands.
SetRunning(running) ==
    /\ running # l_running
    /\ l_running' = running
    /\ l_stopped' = (l_stopped \/ (~running /\ l_pc \in {"loop", "sell", "deleting"}))
    /\ UNCHANGED <<l_settings, l_prices, l_market, l_remote, l_next, l_my_orders, l_stock_items, l_price_items, l_todo, l_cur, l_pc, l_pass, l_calls, l_last, l_clean, l_result, l_queue, l_memo>>
    /\ UNCHANGED <<knapVars, storeVars, cacheVars>>

\* As DeleteAllSides, with both sides whatever the mode.
DeleteAllSides_Every(mode, current_orders) == current_orders.buy_orders \o current_orders.sell_orders

\* The orders delete_all_orders goes through (lines 341-348).
DeleteAllSides(mode, current_orders) ==
    (IF mode \in {"Buy", "Both"} THEN current_orders.buy_orders ELSE <<>>)
    \o (IF mode \in {"Sell", "Both"} THEN current_orders.sell_orders ELSE <<>>)

\* delete_all_orders(mode) up to its loop (lines 323-351).
DeleteAllStart(mode) ==
    /\ l_pc = "idle" \/ (l_pc = "done" /\ l_result = "ok" /\ l_pass < MaxPass)
    /\ LET current_orders == l_remote
           orders == DeleteAllSides(mode, current_orders)
       IN  /\ stock' = StockItemMutation_update_all(stock, "Pending", None)
           /\ l_queue' = orders
           /\ l_pc' = IF orders = <<>> THEN "done" ELSE "deleting"
           /\ l_result' = IF orders = <<>> THEN "ok" ELSE "none"
    /\ l_cur' = mode
    /\ l_pass' = l_pass + 1
    /\ l_calls' = <<>>
    /\ l_last' = [LastNone EXCEPT !.fn = "delete_all_start"]
    /\ l_stopped' = ~l_running
    /\ UNCHANGED <<loopEnv, l_remote, l_next, l_my_orders, l_stock_items, l_price_items, l_todo, l_clean, l_running, l_memo>>
    /\ UNCHANGED <<knapVars, next_id, s_ops, s_last, s_ret, s_keys, s_tasks, cacheVars>>

\* One turn of the loop of delete_all_orders (lines 352-377).
DeleteAllStep(fail) ==
    /\ l_pc = "deleting"
    /\ LET order == Head(l_queue)
           rest == Tail(l_queue)
           d == wfm_delete(StepEnv("delete_all", order.url), order.id, fail)
           last == [LastNone EXCEPT !.fn = "delete_all", !.item = order.url, !.ncalls = Len(l_calls)]
       IN  IF ~l_running
           THEN /\ l_last' = [last EXCEPT !.msg = "idle"]
                /\ l_pc' = "done" /\ l_result' = "ok" /\ l_queue' = <<>>
                /\ UNCHANGED <<l_remote, l_calls>>
           ELSE /\ l_queue' = rest
                /\ l_pc' = IF rest = <<>> THEN "done" ELSE "deleting"
                /\ l_result' = IF rest = <<>> THEN "ok" ELSE "none"
                /\ IF Contains(l_settings.blacklist, order.url)
                   THEN /\ l_last' = [last EXCEPT !.msg = "deleting_orders"]
                        /\ UNCHANGED <<l_remote, l_calls>>
                   ELSE /\ l_last' = [last EXCEPT !.msg = "deleting_orders", !.err = d.err]
                        /\ l_remote' = d.remote
                        /\ l_calls' = d.calls
    /\ UNCHANGED <<loopEnv, l_next, l_my_orders, l_stock_items, l_price_items, l_todo, l_cur, l_pass, l_clean, l_running, l_stopped, l_memo>>
    /\ UNCHANGED <<knapVars, storeVars, cacheVars>>

Switch == \E running \in BOOLEAN : SetRunning(running)

DeleteAllOrders == \E mode \in OrderModes : DeleteAllStart(mode)

DeleteAllLoop == \E fail \in 0..1 : DeleteAllStep(fail)

CtlNext ==
    \/ Start
    \/ LoopIterate
    \/ LoopSellStep
    \/ Finish
    \/ Switch
    \/ DeleteAllOrders
    \/ DeleteAllLoop

SpecCtl == CtlInit /\ [][CtlNext]_vars

(***************************************************************************)
(* SpecCap: check_stock as in SpecLoop, in order mode Both, under an       *)
(* avg_price_cap that lies below or above the live buy prices.             *)
(***************************************************************************)
CapSettings ==
    {[s EXCEPT !.avg_price_cap = c] :
        s \in {t \in LoopSettings : t.order_mode = "Both" /\ t.max_total_price_cap = 12},
        c \in {5, 80}}

CapInit ==
    /\ l_settings \in CapSettings
    /\ l_prices \in PriceTables
    /\ l_market \in Markets
    /\ l_remote \in {EmptyOrders, [buy_orders |-> <<OrderA>>, sell_orders |-> <<>>]}
    /\ l_next = 4
    /\ stock \in LoopStockTables
    /\ next_id = Len(stock) + 1
    /\ s_ops = 0 /\ s_last = [op |-> "init", ok |-> TRUE, events |-> <<>>] /\ s_ret = None /\ s_keys = {} /\ s_tasks = <<>>
    /\ LoopStopped
    /\ KnapIdle
    /\ CacheIdle

CapNext ==
    \/ Start
    \/ LoopIterate
    \/ LoopSellStep
    \/ Finish

SpecCap == CapInit /\ [][CapNext]_vars

(***************************************************************************)
(* SpecSell: the sell decision of one cycle, taken where check_stock has   *)
(* reached it for item a in order mode Sell, over stock rows, settings,    *)
(* live orders and moving averages of every kind.                          *)
(***************************************************************************)
SellSettings ==
    {[s EXCEPT !.min_sma = m, !.min_profit = p] :
        s \in {t \in LoopSettings : t.order_mode = "Sell" /\ t.max_total_price_cap = 12},
        m \in {0, 4}, p \in {0, 2}}
SellPrices == {<<[PriceInfo("a", None) EXCEPT !.moving_avg = v]>> : v \in {None, Some(IntRat(8)), Some(IntRat(40))}}
SellStockTables ==
    {<<NewRow(1, "a", 1, price, minium_price, None)>> :
        price \in {IntRat(1), IntRat(30)}, minium_price \in {None, Some(3), Some(20)}}
SellOrders == {EmptyOrders, [buy_orders |-> <<>>, sell_orders |-> <<OrderS>>]}

SellInit ==
    /\ l_settings \in SellSettings
    /\ l_prices \in SellPrices
    /\ l_market \in Markets
    /\ l_remote \in SellOrders
    /\ l_next = 4
    /\ stock \in SellStockTables
    /\ next_id = 2
    /\ s_ops = 0 /\ s_last = [op |-> "init", ok |-> TRUE, events |-> <<>>] /\ s_ret = None /\ s_keys = {} /\ s_tasks = <<>>
    /\ l_my_orders = l_remote /\ l_stock_items = Some(stock) /\ l_price_items = l_prices
    /\ l_todo = [u \in {"a"} |-> 0] /\ l_cur = "a" /\ l_pc = "sell" /\ l_pass = 1
    /\ l_calls = <<>> /\ l_clean = TRUE /\ l_result = "none"
    /\ l_last = [LastNone EXCEPT !.fn = "skip", !.item = "a"]
    /\ l_running = TRUE /\ l_stopped = FALSE /\ l_queue = <<>> /\ l_memo = {}
    /\ KnapIdle
    /\ CacheIdle

SellNext ==
    \/ LoopSellStep
    \/ Finish

SpecSell == SellInit /\ [][SellNext]_vars

(***************************************************************************)
(* SpecMemo: get_interesting_items called again and again while the        *)
(* settings, the stock table and the price statistics change between calls.*)
(***************************************************************************)
MemoSettings ==
    {[s EXCEPT !.volume_threshold = v, !.blacklist = b] :
        s \in {t \in LoopSettings : t.max_total_price_cap = 12 /\ t.order_mode = "Both"},
        v \in {5, 20}, b \in {<<>>, <<"a">>}}
MemoStockTables == {<<>>, <<NewRow(1, "b", 1, IntRat(5), None, None)>>}

MemoInit ==
    /\ l_settings \in MemoSettings
    /\ l_prices \in PriceTables
    /\ stock \in MemoStockTables
    /\ next_id = Len(stock) + 1
    /\ s_ops = 0 /\ s_last = [op |-> "init", ok |-> TRUE, events |-> <<>>] /\ s_ret = None /\ s_keys = {} /\ s_tasks = <<>>
    /\ l_market = <<>> /\ l_remote = EmptyOrders /\ l_next = 1
    /\ LoopStopped
    /\ KnapIdle
    /\ CacheIdle

\* What a step of SpecMemo leaves alone.
MemoRest ==
    /\ UNCHANGED <<l_market, l_remote, l_next, l_my_orders, l_stock_items, l_todo, l_cur, l_pc, l_pass, l_calls, l_clean, l_result, ctlVars>>
    /\ UNCHANGED <<knapVars, s_ops, s_last, s_ret, s_keys, s_tasks, cacheVars>>

\* A call of get_interesting_items.
MemoGet ==
    /\ LET r == get_interesting_items(l_memo, l_settings, l_prices, stock)
       IN  l_memo' = r.memo /\ l_price_items' = r.ret
    /\ l_last' = [LastNone EXCEPT !.fn = "get_interesting_items"]
    /\ UNCHANGED <<l_settings, l_prices, stock, next_id>>
    /\ MemoRest

\* The operator saves other settings.
MemoSetSettings ==
    /\ l_settings' \in MemoSettings \ {l_settings}
    /\ l_last' = [LastNone EXCEPT !.fn = "settings"]
    /\ UNCHANGED <<l_prices, stock, next_id, l_memo, l_price_items>>
    /\ MemoRest

\* The stock table gains or loses its row.
MemoSetStock ==
    /\ stock' \in MemoStockTables \ {stock}
    /\ next_id' = Len(stock') + 1
    /\ l_last' = [LastNone EXCEPT !.fn = "stock"]
    /\ UNCHANGED <<l_settings, l_prices, l_memo, l_price_items>>
    /\ MemoRest

\* The price statistics are refreshed.
MemoSetPrices ==
    /\ l_prices' \in PriceTables \ {l_prices}
    /\ l_last' = [LastNone EXCEPT !.fn = "prices"]
    /\ UNCHANGED <<l_settings, stock, next_id, l_memo, l_price_items>>
    /\ MemoRest

MemoNext ==
    \/ MemoGet
    \/ MemoSetSettings
    \/ MemoSetStock
    \/ MemoSetPrices

SpecMemo == MemoInit /\ [][MemoNext]_vars

(***************************************************************************)
(* SpecLazy: MaxThreads threads calling the lazily initialising accessors  *)
(* item() and item_price() of a shared CacheClient (cache/client.rs), one  *)
(* call after another.  A module is named <<accessor, n>>, n counting the  *)
(* constructor runs of that accessor.                                      *)
(***************************************************************************)
MaxThreads == 2
Threads == 1..MaxThreads
Accessors == {"item", "item_price"}
ThreadIdle == [pc |-> "idle", acc |-> "", got |-> None, after |-> FALSE]
\* The module update_*_module publishes for an accessor; the constructors'
\* modules are numbered from 1.
Published(acc) == <<acc, 0>>
\* An update_*_module call for acc has completed.
Updated(acc) == \E u \in Threads : z_th[u].pc = "updated" /\ z_th[u].acc = acc

LazyInit ==
    /\ z_cell = [a \in Accessors |-> None]
    /\ z_th = [t \in Threads |-> ThreadIdle]
    /\ z_built = [a \in Accessors |-> 0]
    /\ LoadIdle
    /\ KnapIdle
    /\ StoreIdle
    /\ LoopIdle

\* if self.item_module.read().unwrap().is_none(): the read lock is taken for
\* the test alone and released before the body.
LazyCheck(t, acc) ==
    /\ z_th[t].pc \in {"idle", "done"}
    /\ z_th' = [z_th EXCEPT ![t] = [pc |-> IF z_cell[acc] = None THEN "init" ELSE "read", acc |-> acc, got |-> None, after |-> Updated(acc)]]
    /\ UNCHANGED <<z_cell, z_built>>
    /\ UNCHANGED <<loadVars, knapVars, storeVars, loopVars>>

\* *self.item_module.write().unwrap() = Some(ItemModule::new(self.clone())):
\* the constructor runs and its result replaces what the cell holds.
LazyStore(t) ==
    /\ z_th[t].pc = "init"
    /\ LET acc == z_th[t].acc
       IN  /\ z_built' = [z_built EXCEPT ![acc] = @ + 1]
           /\ z_cell' = [z_cell EXCEPT ![acc] = Some(<<acc, z_built[acc] + 1>>)]
    /\ z_th' = [z_th EXCEPT ![t].pc = "read"]
    /\ UNCHANGED <<loadVars, knapVars, storeVars, loopVars>>

\* self.item_module.read().unwrap().as_ref().unwrap().clone()
LazyReturn(t) ==
    /\ z_th[t].pc = "read"
    /\ z_th' = [z_th EXCEPT ![t].pc = "done", ![t].got = z_cell[z_th[t].acc]]
    /\ UNCHANGED <<z_cell, z_built>>
    /\ UNCHANGED <<loadVars, knapVars, storeVars, loopVars>>

LazyCall == \E t \in Threads, acc \in Accessors : LazyCheck(t, acc)
LazyConstruct == \E t \in Threads : LazyStore(t)
LazyGet == \E t \in Threads : LazyReturn(t)

LazyNext ==
    \/ LazyCall
    \/ LazyConstruct
    \/ LazyGet

SpecLazy == LazyInit /\ [][LazyNext]_vars

(***************************************************************************)
(* SpecPublish: the accessors as in SpecLazy, with threads that call       *)
(* update_item_module or update_item_price_module.                         *)
(***************************************************************************)
\* *self.item_module.write().unwrap() = Some(module): one write-locked store.
LazyUpdate(t, acc) ==
    /\ z_th[t].pc = "idle"
    /\ z_cell' = [z_cell EXCEPT ![acc] = Some(Published(acc))]
    /\ z_th' = [z_th EXCEPT ![t] = [pc |-> "updated", acc |-> acc, got |-> None, after |-> FALSE]]
    /\ UNCHANGED z_built
    /\ UNCHANGED <<loadVars, knapVars, storeVars, loopVars>>

LazyPublish == \E t \in Threads, acc \in Accessors : LazyUpdate(t, acc)

PublishNext ==
    \/ LazyCall
    \/ LazyConstruct
    \/ LazyGet
    \/ LazyPublish

SpecPublish == LazyInit /\ [][PublishNext]_vars

(***************************************************************************)
(* SpecLoad: one run of CacheClient::load (cache/client.rs) against a      *)
(* remote and a disk that may fail.  Time is counted in hours; a timestamp *)
(* string is [fmt, t], fmt telling how it is written.  The content of      *)
(* cache.json is [kind, last_refresh, item, riven]: kind "object" for a    *)
(* JSON object, whose keys are None when missing, "garbage" for text that  *)
(* is not JSON.                                                            *)
(***************************************************************************)
NowHours == 100
Stamp(fmt, t) == [fmt |-> fmt, t |-> t]
to_rfc3339(t) == Stamp("rfc3339", t)
parse_from_rfc3339(str) == IF str.fmt = "rfc3339" THEN Some(str.t) ELSE None
\* DateTime's Display, which is not the RFC 3339 form.
DateTimeToString(t) == Stamp("display", t)

Json(last_refresh, item, riven) == [kind |-> "object", last_refresh |-> last_refresh, item |-> item, riven |-> riven]
Garbage == [kind |-> "garbage", last_refresh |-> None, item |-> None, riven |-> None]

\* validate_json: [ok, data, is_valid]; ok = FALSE is the Err return.
validate_json(json_str) ==
    LET lr == json_str.last_refresh
        item == json_str.item
        riven == json_str.riven
        is_valid == /\ lr # None
                    /\ item # None => Unwrap(item).items # None
                    /\ riven # None => (Unwrap(riven).items # None /\ Unwrap(riven).attributes # None)
    IN  IF json_str.kind # "object" \/ item = None \/ riven = None
        THEN [ok |-> FALSE, data |-> EmptyCacheData, is_valid |-> FALSE]
        ELSE [ok |-> TRUE, is_valid |-> is_valid,
              data |-> [last_refresh |-> IF lr = None THEN Some(to_rfc3339(NowHours)) ELSE lr,
                        item |-> [items |-> UnwrapOr(Unwrap(item).items, <<>>)],
                        riven |-> [items |-> UnwrapOr(Unwrap(riven).items, <<>>),
                                   attributes |-> UnwrapOr(Unwrap(riven).attributes, <<>>)]]]

\* serde_json::to_string_pretty(&cache_data): every key is written.
to_string_pretty(data) ==
    Json(data.last_refresh, Some([items |-> Some(data.item.items)]),
         Some([items |-> Some(data.riven.items), attributes |-> Some(data.riven.attributes)]))

\* The sub-modules' load(): they read the extracted catalog files.
modules_load(catalog, modules_ok) == catalog # None /\ catalog # Some("partial") /\ modules_ok

\* What item().refresh() and riven().refresh() leave in cache_data.
refreshed(data) ==
    [data EXCEPT !.item = [items |-> <<"item">>],
                 !.riven = [items |-> <<"riven">>, attributes |-> <<"attribute">>]]

CacheIds == {"v1", "v2"}
LocalIds == {None, Some("v1")}
RemoteIds == {None} \cup {Some(id) : id \in CacheIds}
Downloads == {"ok", "transport", "extract", "write"}
JsonStamps == {None, Some(to_rfc3339(NowHours - 1)), Some(to_rfc3339(NowHours - 30)), Some(Stamp("text", 0))}
JsonItems == {None, Some([items |-> None]), Some([items |-> Some(<<"old">>)])}
JsonRivens == {None, Some([items |-> None, attributes |-> Some(<<>>)]), Some([items |-> Some(<<>>), attributes |-> None]), Some([items |-> Some(<<>>), attributes |-> Some(<<>>)])}
CacheFiles == {None, Some(Garbage)} \cup {Some(Json(lr, item, riven)) : lr \in JsonStamps, item \in JsonItems, riven \in JsonRivens}

LoadInit ==
    /\ c_env \in [local : LocalIds, remote : RemoteIds, download : Downloads, modules_ok : BOOLEAN,
                  refresh_ok : BOOLEAN, save_ok : BOOLEAN, file : CacheFiles]
    /\ c_pc = "idle"
    /\ c_id = c_env.local
    /\ c_catalog = c_env.local
    /\ c_data = EmptyCacheData
    /\ c_file = c_env.file
    /\ c_result = "none"
    /\ c_trace = <<>>
    /\ LazyIdle
    /\ KnapIdle
    /\ StoreIdle
    /\ LoopIdle

LoadReturn(result) == c_pc' = "done" /\ c_result' = result

\* Lines 198-212: a failed get_cache_id is logged and the local identity
\* stands in for the remote one.
remote_cache_id_NoFallback(current_cache_id, remote) == UnwrapOr(remote, "N/A")

remote_cache_id(current_cache_id, remote) == UnwrapOr(remote, current_cache_id)

\* Lines 190-217: the two identities; a failed get_cache_id is logged and the
\* local identity stands in for the remote one.
LoadIdentity ==
    /\ c_pc = "idle"
    /\ LET current_cache_id == UnwrapOr(c_id, "N/A")
           remote == remote_cache_id(current_cache_id, c_env.remote)
       IN  /\ c_pc' = IF current_cache_id # remote THEN "download" ELSE "modules"
           /\ c_trace' = Append(c_trace, IF c_env.remote = None THEN "id_failed" ELSE "id")
    /\ UNCHANGED <<c_env, c_id, c_catalog, c_data, c_file, c_result>>
    /\ UNCHANGED <<lazyVars, knapVars, storeVars, loopVars>>

\* Lines 218-225: download_cache_data().await? and update_current_cache_id()?;
\* "write" is a download that succeeds followed by a cache_id.txt that cannot
\* be created.
LoadDownload ==
    /\ c_pc = "download"
    /\ IF c_env.download = "ok"
       THEN /\ c_catalog' = c_env.remote
            /\ c_id' = c_env.remote
            /\ c_pc' = "modules"
            /\ c_trace' = Append(c_trace, "download")
            /\ UNCHANGED c_result
       ELSE /\ c_catalog' = CASE c_env.download = "extract" -> Some("partial")
                                [] c_env.download = "write" -> c_env.remote
                                [] OTHER -> c_catalog
            /\ LoadReturn("err")
            /\ c_trace' = Append(c_trace, IF c_env.download = "write" THEN "write_failed" ELSE "download_failed")
            /\ UNCHANGED c_id
    /\ UNCHANGED <<c_env, c_data, c_file>>
    /\ UNCHANGED <<lazyVars, knapVars, storeVars, loopVars>>

\* Lines 227-245: the sub-modules load, each with `?`.
LoadModules ==
    /\ c_pc = "modules"
    /\ IF modules_load(c_catalog, c_env.modules_ok)
       THEN c_pc' = "snapshot" /\ c_trace' = Append(c_trace, "modules") /\ UNCHANGED c_result
       ELSE LoadReturn("err") /\ c_trace' = Append(c_trace, "modules_failed")
    /\ UNCHANGED <<c_env, c_id, c_catalog, c_data, c_file>>
    /\ UNCHANGED <<lazyVars, knapVars, storeVars, loopVars>>

\* Lines 247-287 up to the call of refresh(): the snapshot is used when it
\* exists, validates and is younger than 24 hours.
LoadSnapshot ==
    /\ c_pc = "snapshot"
    /\ LET v == IF c_file = None THEN [ok |-> TRUE, data |-> EmptyCacheData, is_valid |-> FALSE]
                ELSE validate_json(Unwrap(c_file))
           last_refresh == IF v.ok /\ v.is_valid THEN parse_from_rfc3339(Unwrap(v.data.last_refresh)) ELSE None
       IN  IF ~v.ok
           THEN LoadReturn("err") /\ c_trace' = Append(c_trace, "read_failed") /\ UNCHANGED c_data
           ELSE IF ~v.is_valid
           THEN /\ c_pc' = "refresh"
                /\ c_trace' = Append(c_trace, IF c_file = None THEN "no_file" ELSE "read_invalid")
                /\ UNCHANGED <<c_data, c_result>>
           ELSE IF last_refresh = None
           THEN LoadReturn("err") /\ c_trace' = Append(c_trace, "date_failed") /\ UNCHANGED c_data
           ELSE IF NowHours - Unwrap(last_refresh) < 24
           THEN /\ c_data' = [v.data EXCEPT !.last_refresh = Some(DateTimeToString(Unwrap(last_refresh)))]
                /\ LoadReturn("ok")
                /\ c_trace' = Append(c_trace, "read_fresh")
           ELSE /\ c_pc' = "refresh"
                /\ c_trace' = Append(c_trace, "read_old")
                /\ UNCHANGED <<c_data, c_result>>
    /\ UNCHANGED <<c_env, c_id, c_catalog, c_file>>
    /\ UNCHANGED <<lazyVars, knapVars, storeVars, loopVars>>

\* refresh().await? and save_to_file()?, then return Ok(data).
LoadRefresh ==
    /\ c_pc = "refresh"
    /\ IF ~c_env.refresh_ok
       THEN LoadReturn("err") /\ c_trace' = Append(c_trace, "refresh_failed") /\ UNCHANGED <<c_data, c_file>>
       ELSE LET data == [refreshed(c_data) EXCEPT !.last_refresh = Some(to_rfc3339(NowHours))]
            IN  /\ c_data' = data
                /\ IF c_env.save_ok
                   THEN c_file' = Some(to_string_pretty(data)) /\ LoadReturn("ok") /\ c_trace' = c_trace \o <<"refresh", "save">>
                   ELSE UNCHANGED c_file /\ LoadReturn("err") /\ c_trace' = c_trace \o <<"refresh", "save_failed">>
    /\ UNCHANGED <<c_env, c_id, c_catalog>>
    /\ UNCHANGED <<lazyVars, knapVars, storeVars, loopVars>>

LoadNext ==
    \/ LoadIdentity
    \/ LoadDownload
    \/ LoadModules
    \/ LoadSnapshot
    \/ LoadRefresh

SpecLoad == LoadInit /\ [][LoadNext]_vars

(***************************************************************************)
(* SpecReload: load() called again and again.  c_env has three more        *)
(* fields: server, the identity the remote holds (remote is what           *)
(* get_cache_id returns, None when the remote cannot be reached); was, the *)
(* identity it held during the previous load; fetched, whether the         *)
(* previous load reached it.                                               *)
(***************************************************************************)
MaxLoads == 2
ReloadFiles == {None, Some(Json(Some(to_rfc3339(NowHours - 1)), Some([items |-> Some(<<"old">>)]), Some([items |-> Some(<<>>), attributes |-> Some(<<>>)])))}
ReloadEnvs(local, file, was, fetched) ==
    {[local |-> local, remote |-> remote, download |-> download, modules_ok |-> modules_ok,
      refresh_ok |-> TRUE, save_ok |-> TRUE, file |-> file, server |-> server, was |-> was, fetched |-> fetched] :
        server \in CacheIds, remote \in {None} \cup {Some(id) : id \in CacheIds},
        download \in Downloads, modules_ok \in BOOLEAN}

ReloadInit ==
    /\ \E local \in LocalIds, file \in ReloadFiles, was \in CacheIds :
          /\ c_env \in {e \in ReloadEnvs(local, file, was, FALSE) : e.remote \in {None, Some(e.server)} /\ e.was = e.server}
          /\ c_id = local
          /\ c_catalog = local
          /\ c_file = file
    /\ c_pc = "idle"
    /\ c_data = EmptyCacheData
    /\ c_result = "none"
    /\ c_trace = <<>>
    /\ LazyIdle
    /\ KnapIdle
    /\ StoreIdle
    /\ LoopIdle

\* The number of loads begun.
Loads == 1 + Cardinality({i \in DOMAIN c_trace : c_trace[i] = "load"})

\* load() has returned and is called again; c_result keeps the value the
\* previous call returned until this one returns.
LoadAgain ==
    /\ c_pc = "done"
    /\ Loads < MaxLoads
    /\ c_env' \in {e \in ReloadEnvs(c_id, c_file, c_env.server, c_env.remote # None) : e.remote \in {None, Some(e.server)}}
    /\ c_pc' = "idle"
    /\ c_trace' = Append(c_trace, "load")
    /\ UNCHANGED <<c_id, c_catalog, c_data, c_file, c_result>>
    /\ UNCHANGED <<lazyVars, knapVars, storeVars, loopVars>>

ReloadNext ==
    \/ LoadIdentity
    \/ LoadDownload
    \/ LoadModules
    \/ LoadSnapshot
    \/ LoadRefresh
    \/ LoadAgain

SpecReload == ReloadInit /\ [][ReloadNext]_vars

(***************************************************************************)
(* Claims about the stock store                                            *)
(***************************************************************************)
\* C6: every row of the stock table has owned >= 1.
C6_OwnedAtLeastOne == \A r \in Rows : r.owned >= 1

\* C8: a row whose status is ToLowProfit, OrderLimit or Pending has
\* listed_price = NULL.
C8_NoListPriceWhenUnlisted ==
    \A r \in Rows :
        r.status \in {"ToLowProfit", "OrderLimit", "Pending"} => r.listed_price = None

\* The positions of the rows of tbl with the given url and sub_type.
KeyRows(tbl, url_name, sub_type) ==
    {i \in 1..Len(tbl) : tbl[i].url = url_name /\ tbl[i].sub_type = sub_type}

\* C9: create on an existing row (owned = o, price = b) sets owned to
\* o + max(q, 1) and price to (b * o + p) / (o + max(q, 1)), p being the total
\* paid for the batch, and changes no other field of the row.
C9_CreatePost(url_name, quantity, price, sub_type) ==
    \A i \in KeyRows(stock, url_name, sub_type) :
        LET old == stock[i]
            new == stock'[i]
            q == Max(quantity, 1)
            o == old.owned
            b == old.price
        IN  /\ Len(stock') = Len(stock)
            /\ new.owned = o + q
            \* new.price = (b * o + p) / (o + q), cross-multiplied
            /\ new.price[1] * (b[2] * price[2] * (o + q))
                   = (b[1] * o * price[2] + price[1] * b[2]) * new.price[2]
            /\ new = [old EXCEPT !.owned = new.owned, !.price = new.price]

C9_CreateMergesWeightedAverage ==
    [][\A url_name \in Catalog, quantity \in CreateQty, price \in CreatePrices,
          minium_price \in MinPrices, sub_type \in StoreSubTypes :
            Create(url_name, quantity, price, minium_price, sub_type)
                => C9_CreatePost(url_name, quantity, price, sub_type)]_vars

\* A merge of a batch of 2 for 9 into the row (owned 2, price 3) has happened.
C9_Witness ==
    /\ s_last.op = "create_merge" /\ s_last.ok
    /\ \E r \in Rows : r.owned = 4 /\ r.price = <<15, 4>>

\* C10: after creates only, every (url, sub_type) pair create succeeded for
\* has exactly one row, so two creates of one url with different sub_types
\* leave two rows.
C10_OneRowPerUrlAndSubType ==
    \A k \in s_keys : Cardinality(KeyRows(stock, k[1], k[2])) = 1

\* C11: sell_item(id, q) on a row with owned = o removes the row when
\* o - max(q, 1) <= 0 and otherwise sets its owned to o - max(q, 1), leaving
\* its other fields and every other row as they were.
C11_SellPost(id, quantity) ==
    LET i == IndexOfId(stock, id)
        left == stock[i].owned - Max(quantity, 1)
    IN  i # 0 => stock' = IF left <= 0 THEN RemoveAt(stock, i)
                          ELSE [stock EXCEPT ![i].owned = left]

C11_SellDecrementsOrDeletes ==
    [][\A id \in StoreIds, quantity \in SellQty :
          SellItem(id, quantity) => C11_SellPost(id, quantity)]_vars

\* sell_item(1, 0) has taken one of the two units of row 1, next to row 2.
C11_Witness ==
    /\ s_last.op = "sell_item" /\ s_last.ok
    /\ Len(stock) = 2
    /\ stock[1] = [NewRow(1, "a", 2, IntRat(6), None, None) EXCEPT !.price_history = FilledHistory(4), !.owned = 1]
    /\ stock[2] = NewRow(2, "b", 3, IntRat(12), Some(3), None)

\* C12: the struct sell_item returns is the row as it was before the call:
\* its owned is the row's owned before the decrement.
C12_SellReturnsSnapshot ==
    [][\A id \in StoreIds, quantity \in SellQty :
          (SellItem(id, quantity) /\ s_last'.ok)
              => Unwrap(s_ret').owned = Unwrap(get_by_id(stock, id)).owned]_vars

\* C28: create for a url with no catalog entry returns an error, leaves the
\* table as it was and emits no event, whether or not the url has a row.
C28_CreateUnknownUrlRejected ==
    [][\A url_name \in CreateUrls, quantity \in CreateQty, price \in CreatePrices, minium_price \in MinPrices, sub_type \in StoreSubTypes :
          (Create(url_name, quantity, price, minium_price, sub_type) /\ find_type(url_name) = None)
              => /\ ~s_last'.ok /\ s_ret' = None
                 /\ stock' = stock /\ next_id' = next_id
                 /\ s_last'.events = <<>>]_vars

\* create("zz", ...) has failed on a table that holds a row for zz.
C28_Witness ==
    /\ s_last.op = "create_err" /\ ~s_last.ok /\ s_last.events = <<>>
    /\ stock = <<NewRow(1, "zz", 1, IntRat(5), None, None)>>

\* What update_by_id makes of one field: the stored value when the argument
\* is omitted, NULL for the sentinel -1, the argument's value otherwise.
PartialField(stored, arg, clears) ==
    IF arg = None THEN stored
    ELSE IF clears /\ arg = Some(-1) THEN None
    ELSE IF clears THEN arg
    ELSE Unwrap(arg)

C32_UpdatePost(r, id, owned, price, minium_price, listed_price, status, hidden, price_history) ==
    LET i == IndexOfId(stock, id)
    IN  IF i = 0
        THEN ~r.ok /\ r.stock = stock /\ r.events = <<>>
        ELSE /\ Len(r.stock) = Len(stock)
             /\ \A j \in 1..Len(stock) : j # i => r.stock[j] = stock[j]
             /\ r.ok =>
                  /\ r.stock[i].id = id /\ r.stock[i].url = stock[i].url /\ r.stock[i].sub_type = stock[i].sub_type
                  /\ r.stock[i].owned = PartialField(stock[i].owned, owned, FALSE)
                  /\ r.stock[i].price = PartialField(stock[i].price, price, FALSE)
                  /\ r.stock[i].minium_price = PartialField(stock[i].minium_price, minium_price, TRUE)
                  /\ r.stock[i].listed_price = PartialField(stock[i].listed_price, listed_price, TRUE)
                  /\ r.stock[i].status = PartialField(stock[i].status, status, FALSE)
                  /\ r.stock[i].hidden = PartialField(stock[i].hidden, hidden, FALSE)
                  /\ price_history = None => r.stock[i].price_history = stock[i].price_history
             /\ ~r.ok => r.stock[i] = stock[i]

\* C32: wherever the store may call it, update_by_id changes, on the row
\* with the given id, the fields passed as Some and no other, and no other
\* row; Some(-1) for minium_price or listed_price stores NULL and an omitted
\* argument keeps the stored value; with an id that is not in the table it
\* fails and changes nothing.
C32_PartialUpdate ==
    s_ops < MaxOps => \A id \in StoreIds, a \in UpdArgs :
        C32_UpdatePost(update_by_id(stock, id, a[1], a[2], a[3], a[4], a[5], a[6], a[7]),
                       id, a[1], a[2], a[3], a[4], a[5], a[6], a[7])

\* An update has cleared the minimum price of row b and kept its owned 3
\* and its price of 4 a unit.
C32_Witness ==
    /\ s_last.op = "update_by_id" /\ s_last.ok
    /\ \E r \in Rows : r.url = "b" /\ r.minium_price = None /\ r.owned = 3 /\ r.price = IntRat(4)

(***************************************************************************)
(* Claims about the pricing loop                                           *)
(***************************************************************************)
\* The remote calls the last step issued, and those a step adds to the log.
StepCalls == SubSeq(l_calls, l_last.ncalls + 1, Len(l_calls))
NewCalls == IF l_pass' = l_pass THEN SubSeq(l_calls', Len(l_calls) + 1, Len(l_calls')) ELSE l_calls'
Created(c) == c.op = "create" /\ c.ok /\ c.rep = "created"

\* C1: within one check_stock cycle no two successful create calls carry the
\* same (url, side, sub_type), and no create is issued for a (url, side,
\* sub_type) the mirror holds a visible order for.
C1_NoTwoCreates ==
    \A i, j \in 1..Len(l_calls) :
        (i < j /\ Created(l_calls[i]) /\ Created(l_calls[j]))
            => <<l_calls[i].item, l_calls[i].order_type, l_calls[i].sub_type>>
                   # <<l_calls[j].item, l_calls[j].order_type, l_calls[j].sub_type>>

C1_NoCreateOverVisible ==
    \A i \in 1..Len(NewCalls) :
        NewCalls[i].op = "create" =>
            ~\E o \in Range(Side(l_my_orders, NewCalls[i].order_type)) :
                o.url = NewCalls[i].item /\ o.sub_type = NewCalls[i].sub_type /\ o.visible

C1_NoDuplicateCreate == [](C1_NoTwoCreates) /\ [][C1_NoCreateOverVisible]_vars

\* One cycle has created a buy and a sell order for item a.
C1_Witness ==
    \E i, j \in 1..Len(l_calls) :
        /\ Created(l_calls[i]) /\ l_calls[i].item = "a" /\ l_calls[i].order_type = "buy"
        /\ Created(l_calls[j]) /\ l_calls[j].item = "a" /\ l_calls[j].order_type = "sell"

\* The stock row of a url.
RowOf(url) == Unwrap(get_item_by_url_name(stock, url))

\* C2: every sell create or update the sell decision issues carries a price
\* strictly above the row's bought cost; when post_price - bought <= 0 the
\* status is ToLowProfit, list_price is cleared (in the row too once the
\* decision returns Ok) and the step issues no create or update.
C2_NeverBelowCost ==
    /\ \A i \in 1..Len(l_calls) :
           (l_calls[i].by = "sell" /\ l_calls[i].op \in {"create", "update"})
               => RatLt(RowOf(l_calls[i].item).price, IntRat(l_calls[i].platinum))
    /\ (l_last.fn = "sell" /\ l_last.post_price - Trunc(RowOf(l_last.item).price) <= 0)
           => /\ l_last.status = "ToLowProfit"
              /\ l_last.list_price = None
              /\ \A i \in 1..Len(StepCalls) : StepCalls[i].op \notin {"create", "update"}
              /\ ~l_last.err => /\ RowOf(l_last.item).status = "ToLowProfit"
                                /\ RowOf(l_last.item).listed_price = None

\* A sell order was created at 6 for a row bought at 4.5 a unit.
C2_Witness ==
    /\ l_last.fn = "sell"
    /\ RowOf(l_last.item).price = <<9, 2>>
    /\ \E i \in 1..Len(StepCalls) : Created(StepCalls[i]) /\ StepCalls[i].platinum = 6

SumPlatinum(orders) == SumSeq([i \in 1..Len(orders) |-> orders[i].platinum])

C4_SecondPassSilent == (l_pass >= 2 /\ l_clean) => l_calls = <<>>

\* C7: no stock row holds more than 5 price-history entries.
C7_HistoryAtMostFive == \A r \in Rows : Len(r.price_history) <= 5
\* C17: with empty whitelist and blacklist, strict_whitelist = false and an
\* empty stock table, the interesting-items selection is empty whatever the
\* price statistics hold.
C17_EmptySettingsSelectNothing ==
    (/\ l_pc # "idle"
     /\ l_settings.whitelist = <<>> /\ l_settings.blacklist = <<>> /\ ~l_settings.strict_whitelist
     /\ stock = <<>>)
        => l_price_items = <<>> /\ DOMAIN l_todo = {}

\* The other users' live orders the decisions see for an item of sub_type.
LiveFor(item, sub_type) == filter_by_sub_type(l_market[item], sub_type, FALSE)

\* C18: a sell decision that saw 2 or fewer live sell orders ends with status
\* NoSellers and issues no create call.
C18_FewSellersNoOrder ==
    (l_last.fn = "sell" /\ Len(LiveFor(l_last.item, RowOf(l_last.item).sub_type).sell_orders) <= 2)
        => /\ l_last.status = "NoSellers"
           /\ \A i \in 1..Len(StepCalls) : StepCalls[i].op # "create"

\* The sub_type the buy decision of an item works with.
RankOf(item) ==
    LET stats == SelectSeq(l_price_items, LAMBDA p : p.url_name = item)
    IN  IF stats # <<>> THEN stats[1].mod_rank ELSE Unwrap(find_by_url_name(item)).max_rank
ClosedAvgOf(item) ==
    LET stats == SelectSeq(l_price_items, LAMBDA p : p.url_name = item)
    IN  IF stats # <<>> THEN stats[1].avg_price ELSE IntRat(0)

\* The buy decision of item is about to run on an empty buy side: live sell
\* orders, no live buy order, closed_avg > 25, no visible buy order of the
\* operator's.
EmptyBuySide(item) ==
    /\ LiveFor(item, RankOf(item)).sell_orders # <<>>
    /\ LiveFor(item, RankOf(item)).buy_orders = <<>>
    /\ RatLt(IntRat(25), ClosedAvgOf(item))
    /\ ~\E o \in Range(l_my_orders.buy_orders) : o.url = item /\ o.sub_type = RankOf(item) /\ o.visible

\* C19: a buy decision on an empty buy side sets status Live and creates
\* exactly one buy order, at max(R - 40, R / 3 - 1) for quantity 1, R being
\* the price range of the live orders.
C19_EmptyBuySidePost(item) ==
    LET R == get_price_range(LiveFor(item, RankOf(item)))
    IN  /\ l_last'.status = "Live"
        /\ Len(NewCalls) = 1
        /\ NewCalls[1].op = "create" /\ NewCalls[1].order_type = "buy"
        /\ NewCalls[1].platinum = Max(R - 40, TDiv(R, 3) - 1)
        /\ NewCalls[1].quantity = 1

C19_EmptyBuySideCreates ==
    [][\A item \in Catalog :
          (/\ l_pc = "loop" /\ l_last'.fn = "buy" /\ l_last'.item = item
           /\ l_todo'[item] < l_todo[item]
           /\ EmptyBuySide(item))
              => C19_EmptyBuySidePost(item)]_vars

\* C20: when the sell create answers order_limit_reached, the row ends with
\* status OrderLimit and no list price, the order_limit_reached message is
\* sent, no error is returned and the cycle goes on.
C20_OrderLimitHandled ==
    (/\ l_last.fn = "sell"
     /\ \E i \in 1..Len(StepCalls) :
           StepCalls[i].op = "create" /\ StepCalls[i].ok /\ StepCalls[i].rep = "order_limit_reached")
        => /\ RowOf(l_last.item).status = "OrderLimit"
           /\ RowOf(l_last.item).listed_price = None
           /\ l_last.msg = "order_limit_reached"
           /\ ~l_last.err
           /\ l_pc \in {"loop", "done"} /\ l_result # "err"

\* The sell create of item a was answered order_limit_reached and the row, so
\* far Pending, is stored with status OrderLimit.
C20_Witness ==
    /\ l_last.fn = "sell" /\ l_last.item = "a" /\ l_last.msg = "order_limit_reached"
    /\ l_pc = "loop"
    /\ RowOf("a").status = "OrderLimit" /\ RowOf("a").listed_price = None
    /\ \E i \in 1..Len(StepCalls) : StepCalls[i].op = "create" /\ StepCalls[i].rep = "order_limit_reached"

\* The buy decision of item has just run past the empty-side return.
BuyStep(item) ==
    /\ l_pc = "loop" /\ l_last'.fn = "buy" /\ l_last'.item = item
    /\ item \in DOMAIN l_todo /\ l_todo'[item] < l_todo[item]
    /\ LiveFor(item, RankOf(item)).buy_orders # <<>>
    /\ LiveFor(item, RankOf(item)).sell_orders # <<>>

\* What the buy decision of item starts from: its quote and the operator's
\* order for the item in the mirror.
QuoteOf(item) == BuyQuote(LiveFor(item, RankOf(item)), ClosedAvgOf(item), l_settings)
UserOrderOf(item) ==
    UnwrapOr(find_order_by_url_sub_type(l_my_orders, item, "buy", RankOf(item)), OrderDefault)

\* C29: the knapsack step of a buy decision runs only when the quoted status
\* is not Live and the operator has no visible buy order for the item (and
\* closed_avg - post_price >= 30 with price_range >= 15, or price_range >= 21).
C29_KnapsackGate ==
    [][\A item \in Catalog :
          (BuyStep(item) /\ l_last'.knap)
              => /\ QuoteOf(item).status # "Live"
                 /\ ~UserOrderOf(item).visible
                 /\ \/ QuoteOf(item).closed_avg_metric >= 30 /\ QuoteOf(item).price_range >= 15
                    \/ QuoteOf(item).price_range >= 21]_vars

\* The selection the knapsack step of item's buy decision makes.
SelectionOf(item) == BuySelection(l_my_orders.buy_orders, item, QuoteOf(item), l_settings)
ProposedSelected(item) == \E o \in Range(SelectionOf(item).selected) : o.id = EmptyId
ExistingUnselected(item) == {o.id : o \in Range(SelectionOf(item).unselected)} \ {EmptyId}

\* No call of the step failed in transport: a call that failed is a delete
\* of the empty id, which the marketplace rejects.
NoTransportFailure ==
    \A i \in 1..Len(NewCalls) : ~NewCalls[i].ok => (NewCalls[i].op = "delete" /\ NewCalls[i].id = EmptyId)

\* C30: after the knapsack step, status is Live exactly when the proposed
\* order (empty id) is selected, and then every existing unselected order is
\* gone from remote and mirror; otherwise status is Underpriced, no error
\* is raised and the knapsack step has asked for no delete (the only delete
\* is the one of the operator's own Underpriced order afterwards).
C30_KnapsackOutcome ==
    [][\A item \in Catalog :
          (BuyStep(item) /\ l_last'.knap /\ NoTransportFailure)
              => IF ProposedSelected(item)
                 THEN /\ l_last'.status = "Live"
                      /\ ExistingUnselected(item) \cap (OrderIds(l_remote') \cup OrderIds(l_my_orders')) = {}
                 ELSE /\ l_last'.status = "Underpriced" /\ ~l_last'.err
                      /\ \A i \in 1..Len(NewCalls) :
                            NewCalls[i].op = "delete" => NewCalls[i].id = UserOrderOf(item).id]_vars

\* C22: an error raised while an item is processed (the fetch of its live
\* orders, its buy decision, its sell decision) is handled by its level: at
\* Warning the cycle goes on, at any other level the cycle ends with the error.
C22_ErrorsByLevel ==
    (l_last.fn \in {"fetch", "buy", "sell", "sell_hidden"} /\ l_last.err)
        => IF l_last.lvl = "Warning" THEN l_result # "err"
           ELSE l_pc = "done" /\ l_result = "err"

\* What an Orders holds: side, id, platinum and quantity of each order.
OrderView(orders) ==
    {[side |-> "buy", id |-> o.id, platinum |-> o.platinum, quantity |-> o.quantity] : o \in Range(orders.buy_orders)}
    \cup {[side |-> "sell", id |-> o.id, platinum |-> o.platinum, quantity |-> o.quantity] : o \in Range(orders.sell_orders)}

\* C25: within a cycle, after a successful remote create, update or delete
\* the mirror holds exactly the operator's remote orders, with the same
\* platinum and quantity.
C25_MirrorMatchesRemote ==
    (l_pc \in {"loop", "sell", "done"} /\ l_calls # <<>> /\ l_calls[Len(l_calls)].ok)
        => OrderView(l_my_orders) = OrderView(l_remote)

\* C21: once the running flag has been false during a cycle of check_stock,
\* the cycle issues no further remote call, even if the flag is true again,
\* and ends with the idle message and Ok.
C21_CancelStopsCycle ==
    [][(l_stopped /\ l_pc = "loop")
          => /\ l_calls' = l_calls
             /\ l_pc' = "done" => (l_result' = "ok" /\ l_last'.msg = "idle")]_vars

\* The operator's orders pruning is to delete under order_mode: the opposite
\* side, without the blacklisted urls.
PruneExpected ==
    LET NotBlack(o) == ~Contains(l_settings.blacklist, o.url)
    IN  IF l_settings.order_mode = "Buy" THEN SelectSeq(l_remote.sell_orders, NotBlack)
        ELSE IF l_settings.order_mode = "Sell" THEN SelectSeq(l_remote.buy_orders, NotBlack)
        ELSE <<>>

\* C23: the calls check_stock issues before its loop are deletes of the
\* opposite-side orders that are not blacklisted, in order, all of them when
\* none fails; no other order is deleted and with order_mode Both there is no call.
C23_PruneOpposite ==
    [][(l_last'.fn = "start" /\ l_pass' = l_pass + 1)
          => /\ Len(l_calls') <= Len(PruneExpected)
             /\ \A i \in 1..Len(l_calls') :
                   l_calls'[i].op = "delete" /\ l_calls'[i].by = "prune" /\ l_calls'[i].id = PruneExpected[i].id
             /\ ~l_last'.err => Len(l_calls') = Len(PruneExpected)
             /\ l_settings.order_mode = "Both" => l_calls' = <<>>]_vars

\* Under order_mode Buy with a blacklisted, pruning has deleted the sell order
\* for b (id 4) and left the sell order for a and both buy orders.
C23_Witness ==
    /\ l_last.fn = "start" /\ l_pc = "loop"
    /\ l_settings.order_mode = "Buy" /\ l_settings.blacklist = <<"a">>
    /\ Len(l_calls) = 1 /\ l_calls[1].op = "delete" /\ l_calls[1].id = 4 /\ l_calls[1].ok
    /\ l_remote = [buy_orders |-> <<OrderA, OrderB>>, sell_orders |-> <<OrderS>>]

\* delete_all_orders is at work or was the last operation.
DeletingAll == l_last.fn \in {"delete_all_start", "delete_all"}

\* C24 (reset first): while delete_all_orders goes through the orders and
\* after it, every stock row is Pending with no list price.
C24_ResetFirst ==
    DeletingAll => \A r \in Rows : r.status = "Pending" /\ r.listed_price = None

\* C24 (the orders): delete_all_orders goes through the operator's orders of
\* the sides of its mode, and issues no call before its loop.
C24_Sides ==
    (l_last'.fn = "delete_all_start" /\ l_pass' = l_pass + 1)
        => /\ l_calls' = <<>>
           /\ l_queue' = (IF l_cur' \in {"Buy", "Both"} THEN l_remote.buy_orders ELSE <<>>)
                         \o (IF l_cur' \in {"Sell", "Both"} THEN l_remote.sell_orders ELSE <<>>)

\* C24 (one turn): with the flag false the operation sends idle and returns
\* Ok with no further delete; with the flag true a blacklisted order is
\* skipped, any other order gets one delete call, and the next order follows
\* whether or not the call failed.
C24_Turn ==
    (l_pc = "deleting" /\ l_queue' # l_queue)
        => IF ~l_running
           THEN /\ l_last'.msg = "idle" /\ l_pc' = "done" /\ l_result' = "ok"
                /\ l_calls' = l_calls /\ l_remote' = l_remote
           ELSE /\ l_queue' = Tail(l_queue)
                /\ l_result' # "err"
                /\ IF Contains(l_settings.blacklist, Head(l_queue).url)
                   THEN l_calls' = l_calls /\ l_remote' = l_remote
                   ELSE /\ Len(NewCalls) = 1
                        /\ NewCalls[1].op = "delete" /\ NewCalls[1].id = Head(l_queue).id

C26_MemoIsFresh ==
    l_last.fn = "get_interesting_items" => l_price_items = filtered_items(l_settings, l_prices, stock)

\* C27: after a call of get_interesting_items the memo holds the entry of
\* the current key and no other.
C27_MemoHoldsOneEntry ==
    l_last.fn = "get_interesting_items" => Cardinality(l_memo) <= 1

\* The guard of LoopItem: the iteration of the HashSet may yield item next.
CanVisit(item) == l_pc = "loop" /\ item \in DOMAIN l_todo /\ l_todo[item] > 0

\* The number of remote calls the buy decision of item issues when item is
\* visited now and every marketplace call succeeds.
BuyCallsOf(item) ==
    LET item_info == find_by_url_name(item)
        live0 == get_orders_by_item(l_market, l_remote, item)
    IN  IF item_info = None \/ (live0.buy_orders = <<>> /\ live0.sell_orders = <<>>) \/ l_settings.order_mode = "Sell"
        THEN 0
        ELSE compare_live_orders_when_buying(StepEnv("buy", item), Unwrap(item_info), RankOf(item), filter_by_username(live0, Me), ClosedAvgOf(item), l_settings, 0, "created").e.n

\* C33: the remote calls of a cycle are determined by its inputs: where the
\* loop may issue the calls of one item next, it may not issue those of
\* another item instead.
C33_DeterministicCalls ==
    l_running => \A item, other \in DOMAIN l_todo :
        (item # other /\ CanVisit(item) /\ CanVisit(other)) => ~(BuyCallsOf(item) > 0 /\ BuyCallsOf(other) > 0)

\* C34: a sell order the sell decision creates or updates for a stock row
\* whose minimum price is set carries a price of at least that minimum.
C34_SellAtLeastMinimum ==
    \A i \in 1..Len(l_calls) :
        (/\ l_calls[i].by = "sell"
         /\ l_calls[i].op \in {"create", "update"}
         /\ IsSome(RowOf(l_calls[i].item).minium_price))
            => l_calls[i].platinum >= Unwrap(RowOf(l_calls[i].item).minium_price)

\* A sell order was created at the minimum price of 20, the lowest live
\* sell order standing at 4 and the moving average at 8.
C34_Witness ==
    /\ l_last.fn = "sell"
    /\ RowOf("a").minium_price = Some(20)
    /\ Len(l_market["a"].sell_orders) = 3
    /\ l_prices[1].moving_avg = Some(IntRat(8))
    /\ \E i \in 1..Len(StepCalls) : Created(StepCalls[i]) /\ StepCalls[i].platinum = 20

\* C35: no delete the buy decision issues carries the empty order id of the
\* proposed entry.
C35_NoDeleteOfEmptyId ==
    \A i \in 1..Len(l_calls) :
        (l_calls[i].by = "buy" /\ l_calls[i].op = "delete") => l_calls[i].id # EmptyId

\* C36: a buy decision whose post price is the highest live buy price and
\* lies above avg_price_cap issues no create and no update.
C36_NoOrderAboveCap ==
    (/\ l_last.fn = "buy"
     /\ LiveFor(l_last.item, RankOf(l_last.item)).buy_orders # <<>>
     /\ l_last.post_price > l_settings.avg_price_cap)
        => \A i \in 1..Len(StepCalls) : StepCalls[i].op \notin {"create", "update"}

\* C37: check_stock creates no buy order for a url of the blacklist.
C37_NoBuyOfBlacklisted ==
    \A i \in 1..Len(l_calls) :
        (Created(l_calls[i]) /\ l_calls[i].order_type = "buy") => ~Contains(l_settings.blacklist, l_calls[i].item)

\* C38: every UpdateOrders/Delete event a decision sends carries the id of
\* an order whose remote delete has succeeded before the event, and the
\* mirror holds that order no longer.
C38_DeleteEventAfterDelete ==
    l_last.fn \in {"buy", "sell", "sell_hidden"} =>
        \A k \in 1..Len(l_last.events) :
            LET ev == l_last.events[k]
            IN  ev.op = "Delete" =>
                  /\ \E i \in 1..ev.at : l_calls[i].op = "delete" /\ l_calls[i].id = ev.id /\ l_calls[i].ok
                  /\ ev.id \notin OrderIds(l_my_orders)

(***************************************************************************)
(* Claims about the cache client                                           *)
(***************************************************************************)
\* C13: under any interleaving of threads calling one accessor of a fresh
\* CacheClient, at most one module constructor runs and all callers receive
\* the same module.
C13_LazyOnce ==
    /\ \A a \in Accessors : z_built[a] <= 1
    /\ \A t, u \in Threads :
          (z_th[t].pc = "done" /\ z_th[u].pc = "done" /\ z_th[t].acc = z_th[u].acc)
              => z_th[t].got = z_th[u].got

\* load() has gone past the reading of the snapshot.
SnapshotRead == c_pc \in {"refresh", "done"} /\ Contains(c_trace, "modules")

\* C14: with a local cache and a different remote identity, a failed catalog
\* download (transport) does not end load(): the sub-modules are loaded from
\* the stale files and, the later steps succeeding, load() returns Ok.
C14_DownloadFailureDegrades ==
    (/\ c_pc = "done"
     /\ c_env.local # None
     /\ c_env.download = "transport"
     /\ Contains(c_trace, "download_failed"))
        => /\ c_env.modules_ok => Contains(c_trace, "modules")
           /\ (c_env.modules_ok /\ c_env.refresh_ok /\ c_env.save_ok /\ c_env.file = None)
                  => c_result = "ok"

\* C15: when cache.json exists and cannot be parsed (not JSON, or a shape
\* that fails deserialization), load() refreshes, persists the rebuilt
\* snapshot and returns Ok, refresh and save succeeding.
C15_ParseErrorTriggersRefresh ==
    (/\ c_pc = "done"
     /\ Contains(c_trace, "modules")
     /\ c_env.file # None
     /\ ~validate_json(Unwrap(c_env.file)).ok
     /\ c_env.refresh_ok /\ c_env.save_ok)
        => /\ c_result = "ok"
           /\ Contains(c_trace, "refresh")
           /\ c_file = Some(to_string_pretty(c_data))

\* A part of the snapshot object the schema names is missing.
MissingPart(json) ==
    \/ json.last_refresh = None
    \/ json.item = None \/ Unwrap(json.item).items = None
    \/ json.riven = None \/ Unwrap(json.riven).items = None \/ Unwrap(json.riven).attributes = None

\* C16: for a JSON object with a part missing, validate_json returns Ok with
\* is_valid = false and load() goes on to refresh; for a complete object it
\* returns is_valid = true.
C16_MissingPartsDefaulted ==
    (SnapshotRead /\ c_env.file # None /\ Unwrap(c_env.file).kind = "object")
        => IF MissingPart(Unwrap(c_env.file))
           THEN Contains(c_trace, "read_invalid")
           ELSE ~Contains(c_trace, "read_invalid") /\ ~Contains(c_trace, "read_failed")

\* The local identity is written by the step that has downloaded and
\* extracted the catalog, and by no other.
IdentityAfterDownload ==
    /\ c_id' # c_id => (c_pc = "download" /\ c_env.download = "ok" /\ c_id' = c_env.remote /\ c_catalog' = c_env.remote)
    /\ (c_pc = "download" /\ c_env.download \in {"transport", "extract"}) => (c_id' = c_id /\ c_result' = "err")

\* The load that begins now performs no download.
NoDownload == c_pc = "idle" => c_pc' # "download"

\* C31 as stated: the local identity is written only after download and
\* extraction succeeded and is unchanged when they fail; after a successful
\* load it equals the remote's identity; the load that follows a successful
\* load, the remote's identity unchanged or unreachable, downloads nothing.
C31_IdentityAfterAnyLoad ==
    /\ []((c_pc = "done" /\ c_result = "ok") => c_id = Some(c_env.server))
    /\ [][IdentityAfterDownload]_vars
    /\ [][(c_result = "ok" /\ (c_env.remote = None \/ c_env.server = c_env.was)) => NoDownload]_vars

\* C31, amended: the same, where the successful load is one that reached the
\* remote; a load that could not reach it keeps the local identity, whatever
\* the remote holds.
C31_IdentityAfterLoad ==
    /\ []((c_pc = "done" /\ c_result = "ok" /\ c_env.remote # None) => c_id = Some(c_env.server))
    /\ [][IdentityAfterDownload]_vars
    /\ [][(c_result = "ok" /\ (c_env.remote = None \/ (c_env.server = c_env.was /\ c_env.fetched))) => NoDownload]_vars

\* A first load that downloaded and returned Ok, then a second load, the
\* remote unchanged and reached, that went on without a download.
C31_Witness ==
    /\ Len(c_trace) >= 4
    /\ c_trace[2] = "download"
    /\ Cardinality({i \in DOMAIN c_trace : c_trace[i] = "download"}) = 1
    /\ Contains(c_trace, "load")
    /\ c_env.fetched /\ c_env.remote # None /\ c_env.server = c_env.was
    /\ c_pc = "done" /\ c_result = "ok"

\* C39: an accessor call that began after update_*_module completed returns
\* the published module, never a module constructed by lazy initialization.
C39_PublishedNotLost ==
    \A t \in Threads :
        (z_th[t].pc = "done" /\ z_th[t].after) => z_th[t].got = Some(Published(z_th[t].acc))

\* C40: two create calls for the same url, interleaved in any way, leave one
\* row for the url, owning what the table held plus both quantities at the
\* weighted average cost of the row and both batches.
BothCreated == \A t \in Creators : t \in DOMAIN s_tasks /\ s_tasks[t].pc = "done"

BaseOwned == IF IsSome(s_tasks[1].base) THEN Unwrap(s_tasks[1].base).owned ELSE 0

BaseCost == IF IsSome(s_tasks[1].base) THEN RatMulInt(Unwrap(s_tasks[1].base).price, Unwrap(s_tasks[1].base).owned) ELSE IntRat(0)

C40_CreateAtomic ==
    BothCreated =>
        LET rows == {i \in 1..Len(stock) : stock[i].url = "a"}
            owned == BaseOwned + s_tasks[1].quantity + s_tasks[2].quantity
            cost == RatAdd(BaseCost, RatAdd(s_tasks[1].price, s_tasks[2].price))
        IN  /\ Cardinality(rows) = 1
            /\ \A i \in rows :
                   /\ stock[i].owned = owned
                   /\ stock[i].price = RatDivInt(cost, owned)

====
